---------------------------- MODULE Spec2Model ----------------------------
(***************************************************************************)
(* Verification model of the rpi-supervisor repository.                    *)
(*                                                                         *)
(* Three programs are modelled, each with its own specification:           *)
(*   SpecPM     src/opt/pm-service.py        (GPIO power manager daemon)    *)
(*   SpecColl   src/opt/pm-fleet-dashboard/server.py  (fleet collector)     *)
(*   SpecCrash  src/opt/pm-crash-capture.py  (crash capture, one run)       *)
(*                                                                         *)
(* Modelling conventions.                                                  *)
(*  - Time is counted in whole seconds.                                    *)
(*  - External processes and network peers are nondeterministic: a tool    *)
(*    may print any output or fail, a spawn may raise, a peer may answer,  *)
(*    time out or reset.  Operations on files the program owns (the key    *)
(*    database, the marker under /run) behave as the OS documents them.    *)
(*  - HMAC-SHA256 is modelled symbolically: a signature is the pair of    *)
(*    the key and the exact message it was computed over.                  *)
(*  - log() output is kept as the set of the messages written so far, for  *)
(*    the messages that tell which branch a handler took.                  *)
(***************************************************************************)
EXTENDS Integers, Sequences, FiniteSets, TLC

VARIABLES
    \* ---- pm-service.py ----
    pc,                 \* position of each thread / callback of the daemon
    shutdown_triggered, \* pm-service.py:60
    shutdown_lock,      \* pm-service.py:61, the thread holding it or "free"
    brownout_counter,   \* pm-service.py:62
    uptime,             \* time.time() - boot_time, seconds (saturating)
    sleep_left,         \* seconds left of the monitor's time.sleep()
    sw_pressed,         \* shutdown_sw.is_pressed
    script_exists,      \* os.path.exists(path) for each script
    popen,              \* number of subprocess.Popen([path]) calls per script
    enable_power_fail,  \* ENABLE_POWER_FAIL, pm-service.py:41
    polls,              \* last results returned by check_undervoltage()
    logged,             \* the messages written by log()
    \* ---- pm-fleet-dashboard/server.py ----
    now,                \* time.time() of the collector, seconds
    keys_db,            \* load_keys()["devices"]: the Key Database file
    discovered_nodes,   \* server.py:46, in insertion order
    nodes,              \* load_nodes(): the static nodes.json
    last,               \* the handler that completed last: input and answer
    \* ---- pm-crash-capture.py ----
    cc_pc,              \* position of the run in main()
    marker,             \* MARKER.exists(), pm-crash-capture.py:15
    log_dump_exists,    \* LOG_DUMP.exists(), pm-crash-capture.py:16
    mark_script_exists, \* MARK_SCRIPT.exists(), pm-crash-capture.py:17
    marker_seen,        \* what was_clean_shutdown() returned in this run
    dump_calls,         \* run_quiet([LOG_DUMP]) calls of this run
    runs,               \* runs started so far
    cc_logged,          \* the messages written by log() in this run
    \* ---- pm-boot-health.py ----
    bh_pc,              \* position of the run in main()
    bh_flags,           \* what get_throttled() returned
    bh_temp,            \* what get_temp() returned, in tenths of a degree
    health_file,        \* OUTFILE, the Health Record; <<>> when not written
    bh_logged,          \* the messages written by log() in this run
    \* ---- pm-storage-harden.py ----
    sh_pc,              \* position of the run in main()
    sh_runs,            \* runs started so far
    sh_rc,              \* what main() returned, "exception" when it raised
    fstab,              \* the lines of FSTAB; <<>> when the file is missing
    sh_backups,         \* backups made by backup_fstab()
    sh_writes,          \* FSTAB.write_text calls
    \* ---- pm-enable-ro-root.py (FSTAB and LOG_DUMP are the files above) ----
    ro_pc,              \* position of the run in main()
    ro_runs,            \* runs started so far
    ro_rc,              \* what main() returned
    cmdline,            \* CMDLINE: [exists, text]
    journald,           \* JOURNALD: [exists, text]
    rw_helper_exists,   \* RW_HELPER.exists()
    ro_helper_exists,   \* RO_HELPER.exists()
    ro_writes,          \* write_text calls of this run, per file
    ro_backups,         \* backup_file calls of this run, per file
    ro_cmds,            \* the commands run_quiet ran in this run
    ro_logged,          \* the messages written by log() in this run
    \* ---- pm-alert-engine.py ----
    ae_pc,              \* position of the run in main()
    config_file,        \* CONFIG, /etc/pm-alert.json
    status_file,        \* STATUS, /boot/pm-fleet/status.json
    ae_cfg,             \* cfg, line 37
    ae_status,          \* status, line 38
    relay,              \* the SMTP call the relay refuses, "none" if none
    smtp,               \* the calls the run made on the SMTP relay, in order
    mails,              \* the messages the relay was handed
    ae_rc,              \* how the run ended: "0" or "exception"
    \* ---- pm-fleet-dashboard/server.py, its threads step by step ----
    inbox,              \* datagrams in the UDP socket's buffer, oldest first
    handled,            \* the datagrams the listener has dealt with
    req,                \* the /api/fleet request each server thread runs
    \* ---- pm-service.py, the deferred RO-root check ----
    ro_check_done,      \* pm-service.py:63
    rc_pc,              \* position of the timer thread in enforce_ro_root_once
    ro_timer,           \* seconds left of threading.Timer(10, ...), line 282
    root_opts,          \* what findmnt -n -o OPTIONS / prints for the root
    findmnt_works,      \* findmnt runs and answers within its timeout
    enforce_script_exists, \* os.path.exists(RO_ENFORCE_SCRIPT)
    rc_popen,           \* subprocess.Popen([RO_ENFORCE_SCRIPT]) calls
    rc_calls,           \* invocations of enforce_ro_root_once so far
    rc_logged,          \* the messages the check wrote with log()
    \* ---- pm-io-freeze.py ----
    fz_pc,              \* position of the run in main()
    fz_i,               \* index of the target the current loop is at
    fz_env,             \* the host: which tools are there, how they answer
    fz_frozen,          \* the targets that are frozen
    fz_cmds,            \* the fsfreeze commands issued, in order
    fz_rc,              \* how the run ended: "0" or "exception"
    fz_logged,          \* the messages written by log() in this run
    \* ---- pm-node-beacon.py ----
    nb_pc,              \* position of the beacon in main()
    nb_host,            \* the node: its key, device and epoch files, its clock
    nb_active_key,      \* active_key, line 135
    nb_next_key,        \* next_key, line 136
    nb_device,          \* device, line 137
    advertised_epoch,   \* lines 140-144
    nb_ticks,           \* turns of the loop of line 158 so far
    wire                \* the datagrams sent and not yet received

pmVars == <<pc, shutdown_triggered, shutdown_lock, brownout_counter, uptime,
            sleep_left, sw_pressed, script_exists, popen, enable_power_fail,
            polls, logged>>

collVars == <<now, keys_db, discovered_nodes, nodes, last>>

crashVars == <<cc_pc, marker, log_dump_exists, mark_script_exists,
               marker_seen, dump_calls, runs, cc_logged>>

healthVars == <<bh_pc, bh_flags, bh_temp, health_file, bh_logged>>

\* The one-shot programs other than crash capture.
hardenVars == <<sh_pc, sh_runs, sh_rc, fstab, sh_backups, sh_writes>>

roVars == <<ro_pc, ro_runs, ro_rc, cmdline, journald, rw_helper_exists,
           ro_helper_exists, ro_writes, ro_backups, ro_cmds, ro_logged>>

alertVars == <<ae_pc, config_file, status_file, ae_cfg, ae_status, relay, smtp,
              mails, ae_rc>>

\* The collector's listener queue and request threads, used where the
\* interleaving of its threads is followed statement by statement.
raceVars == <<inbox, handled, req>>

rcVars == <<ro_check_done, rc_pc, ro_timer, root_opts, findmnt_works,
            enforce_script_exists, rc_popen, rc_calls, rc_logged>>

fzVars == <<fz_pc, fz_i, fz_env, fz_frozen, fz_cmds, fz_rc, fz_logged>>

nbVars == <<nb_pc, nb_host, nb_active_key, nb_next_key, nb_device,
            advertised_epoch,
            nb_ticks, wire>>

moreVars == <<rcVars, fzVars, nbVars>>

toolVars == <<healthVars, hardenVars, roVars, alertVars, raceVars, moreVars>>

vars == <<pmVars, collVars, crashVars, toolVars>>

\* The boot health scorer, not run.
HealthIdle ==
    /\ bh_pc = "off"
    /\ bh_flags = 0
    /\ bh_temp = 0
    /\ health_file = <<>>
    /\ bh_logged = {}

\* The storage hardener, not run.
HardenIdle ==
    /\ sh_pc = "off"
    /\ sh_runs = 0
    /\ sh_rc = "none"
    /\ fstab = <<>>
    /\ sh_backups = 0
    /\ sh_writes = 0

\* The files the RO-root installer configures
ConfigFiles == {"cmdline", "fstab", "journald"}

\* The RO-root installer, not run.
ROIdle ==
    /\ ro_pc = "off"
    /\ ro_runs = 0
    /\ ro_rc = "none"
    /\ cmdline = [exists |-> FALSE, text |-> <<>>]
    /\ journald = [exists |-> FALSE, text |-> <<>>]
    /\ rw_helper_exists = FALSE
    /\ ro_helper_exists = FALSE
    /\ ro_writes = [f \in ConfigFiles |-> 0]
    /\ ro_backups = [f \in ConfigFiles |-> 0]
    /\ ro_cmds = <<>>
    /\ ro_logged = {}

\* The alert engine, not run.
AlertIdle ==
    /\ ae_pc = "off"
    /\ config_file = [state |-> "missing"]
    /\ status_file = [state |-> "missing"]
    /\ ae_cfg = <<>>
    /\ ae_status = <<>>
    /\ relay = "none"
    /\ smtp = <<>>
    /\ mails = <<>>
    /\ ae_rc = "none"

\* The threads that serve GET /api/fleet (ThreadingHTTPServer, line 357)
Requests == {"r1", "r2"}

\* A server thread that has no request
NoRequest ==
    [pc |-> "idle", t |-> 0, up |-> {}, stale |-> <<>>, used |-> 0, pos |-> 0,
     results |-> <<>>, answer |-> "none"]

\* No datagram waiting and no request running
RaceIdle ==
    /\ inbox = <<>>
    /\ handled = <<>>
    /\ req = [r \in Requests |-> NoRequest]

\* The deferred RO-root check, not armed.
RCIdle ==
    /\ ro_check_done = FALSE
    /\ rc_pc = "off"
    /\ ro_timer = 0
    /\ root_opts = <<>>
    /\ findmnt_works = FALSE
    /\ enforce_script_exists = FALSE
    /\ rc_popen = 0
    /\ rc_calls = 0
    /\ rc_logged = {}

\* The I/O freeze helper, not run.
FreezeIdle ==
    /\ fz_pc = "off"
    /\ fz_i = 0
    /\ fz_env = <<>>
    /\ fz_frozen = {}
    /\ fz_cmds = <<>>
    /\ fz_rc = "none"
    /\ fz_logged = {}

\* The node beacon, not run.
BeaconIdle ==
    /\ nb_pc = "off"
    /\ nb_host = <<>>
    /\ nb_active_key = ""
    /\ nb_next_key = ""
    /\ nb_device = <<>>
    /\ advertised_epoch = 0
    /\ nb_ticks = 0
    /\ wire = <<>>

MoreIdle == RCIdle /\ FreezeIdle /\ BeaconIdle

ToolsIdle ==
    HealthIdle /\ HardenIdle /\ ROIdle /\ AlertIdle /\ RaceIdle /\ MoreIdle

\* Crash capture, not run.
CrashIdle ==
    /\ cc_pc = "off"
    /\ marker = FALSE
    /\ log_dump_exists = FALSE
    /\ mark_script_exists = FALSE
    /\ marker_seen = "unread"
    /\ dump_calls = 0
    /\ runs = 0
    /\ cc_logged = {}

Min(a, b) == IF a < b THEN a ELSE b
Max(a, b) == IF a > b THEN a ELSE b

(***************************************************************************)
(*                       pm-service.py : constants                         *)
(***************************************************************************)
BOOT_IGNORE_TIME == 5
BROWNOUT_CHECK_INTERVAL == 5
BROWNOUT_TRIGGER_COUNT == 3
BROWNOUT_SHUTDOWN == TRUE

\* Bounds of the model.
MaxUptime == 6        \* the clock saturates here (> BOOT_IGNORE_TIME)
MaxRestarts == 2      \* reset presses followed
MaxPolls == 4         \* poll results remembered in polls

SHUTDOWN_SCRIPT == "/opt/shutdown.rpi"
RESTART_SCRIPT == "/opt/restart.rpi"
Scripts == {SHUTDOWN_SCRIPT, RESTART_SCRIPT}

\* The threads that can reach safe_shutdown: the brownout monitor thread and
\* the gpiozero callbacks of the shutdown switch and of the power-fail input.
Threads == {"brownout", "switch", "powerfail"}
Free == "free"

\* What `vcgencmd get_throttled` can give: a failure (timeout, non-zero exit,
\* unparsable number), a line without "=", or throttled=0x<value>.
ThrottledValues == {0, 1, 4, 5, 327680, 327681}
ToolOutputs ==
    [kind : {"error", "noeq"}, value : {0}]
        \cup [kind : {"value"}, value : ThrottledValues]

\* check_undervoltage(), lines 166-182: bool(value & 0x1); False when the
\* output has no "=" and on any exception.
check_undervoltage(out) ==
    IF out.kind = "error" THEN FALSE
    ELSE IF out.kind = "noeq" THEN FALSE
    ELSE (out.value % 2) = 1

\* Where a thread continues when safe_shutdown() returns.
ReturnPc(t) == IF t = "brownout" THEN "bm_sleep" ELSE "idle"
\* The monitor's loop goes back to time.sleep(BROWNOUT_CHECK_INTERVAL).
SleepOnReturn(t) == IF t = "brownout" THEN BROWNOUT_CHECK_INTERVAL ELSE sleep_left

InSafeShutdown(t) == pc[t] \in {"ss_acquire", "ss_locked", "ss_run"}

PMInit ==
    /\ pc = [t \in Threads |-> IF t = "brownout" THEN "bm_sleep" ELSE "idle"]
    /\ shutdown_triggered = FALSE
    /\ shutdown_lock = Free
    /\ brownout_counter = 0
    /\ uptime = 0
    /\ sleep_left = BROWNOUT_CHECK_INTERVAL
    /\ sw_pressed = FALSE
    /\ script_exists \in [Scripts -> BOOLEAN]
    /\ popen = [s \in Scripts |-> 0]
    /\ enable_power_fail \in BOOLEAN
    /\ polls = <<>>
    /\ logged = {}

\* One second passes.
Tick ==
    /\ uptime < MaxUptime \/ sleep_left > 0
    /\ uptime' = Min(uptime + 1, MaxUptime)
    /\ sleep_left' = Max(sleep_left - 1, 0)
    /\ UNCHANGED <<pc, shutdown_triggered, shutdown_lock, brownout_counter,
                   sw_pressed, script_exists, popen, enable_power_fail,
                   polls, logged>>
    /\ UNCHANGED <<collVars, crashVars, toolVars>>

(***************************************************************************)
(* run_script(path), lines 83-96.  A missing script is logged and nothing  *)
(* is started; otherwise subprocess.Popen([path]) is called once (an       *)
(* exception it raises is caught and logged, lines 95-96, and changes      *)
(* nothing else: popen counts the calls).                                  *)
(***************************************************************************)
run_script_popen(path) ==
    IF script_exists[path] THEN [popen EXCEPT ![path] = @ + 1] ELSE popen

run_script_log(path, lg) ==
    IF ~script_exists[path] THEN lg \cup {"Missing script: " \o path} ELSE lg

(***************************************************************************)
(* safe_shutdown(reason), lines 146-155.                                   *)
(***************************************************************************)
\* mutated: the handlers call safe_shutdown() without a reason
M_Reason(t) == "unknown"

\* The reason each caller passes: lines 204, 227, 255
Reason(t) == CASE t = "brownout" -> "brownout"
               [] t = "switch" -> "switch"
               [] t = "powerfail" -> "power-fail"

\* line 149: with shutdown_lock (blocks while another thread holds it)
SS_Acquire(t) ==
    /\ pc[t] = "ss_acquire"
    /\ shutdown_lock = Free
    /\ shutdown_lock' = t
    /\ pc' = [pc EXCEPT ![t] = "ss_locked"]
    /\ UNCHANGED <<shutdown_triggered, brownout_counter, uptime, sleep_left,
                   sw_pressed, script_exists, popen, enable_power_fail,
                   polls, logged>>
    /\ UNCHANGED <<collVars, crashVars, toolVars>>

\* line 150, mutated: the flag is not consulted
M_AlreadyTriggered == FALSE

\* line 150: if shutdown_triggered
AlreadyTriggered == shutdown_triggered

\* lines 150-152; leaving the with block releases the lock
SS_TestAndSet(t) ==
    /\ pc[t] = "ss_locked"
    /\ shutdown_lock = t
    /\ shutdown_lock' = Free
    /\ IF AlreadyTriggered
       THEN /\ pc' = [pc EXCEPT ![t] = ReturnPc(t)]
            /\ sleep_left' = SleepOnReturn(t)
            /\ UNCHANGED shutdown_triggered
       ELSE /\ shutdown_triggered' = TRUE
            /\ pc' = [pc EXCEPT ![t] = "ss_run"]
            /\ UNCHANGED sleep_left
    /\ UNCHANGED <<brownout_counter, uptime, sw_pressed, script_exists, popen,
                   enable_power_fail, polls, logged>>
    /\ UNCHANGED <<collVars, crashVars, toolVars>>

\* lines 154-155: log, then run_script(SHUTDOWN_SCRIPT)
SS_Run(t) ==
    /\ pc[t] = "ss_run"
    /\ popen' = run_script_popen(SHUTDOWN_SCRIPT)
    /\ logged' = run_script_log(SHUTDOWN_SCRIPT,
                    logged \cup {"Shutdown initiated (" \o Reason(t) \o ")"})
    /\ pc' = [pc EXCEPT ![t] = ReturnPc(t)]
    /\ sleep_left' = SleepOnReturn(t)
    /\ UNCHANGED <<shutdown_triggered, shutdown_lock, brownout_counter, uptime,
                   sw_pressed, script_exists, enable_power_fail, polls>>
    /\ UNCHANGED <<collVars, crashVars, toolVars>>

(***************************************************************************)
(* safe_reboot(), lines 158-160, the reset button's when_pressed callback  *)
(* (line 258).                                                             *)
(***************************************************************************)
\* mutated: a reset press is honoured like a shutdown request, outside the
\* boot window and before any shutdown only
M_safe_reboot ==
    /\ popen[RESTART_SCRIPT] < MaxRestarts
    /\ uptime >= BOOT_IGNORE_TIME
    /\ ~shutdown_triggered
    /\ popen' = run_script_popen(RESTART_SCRIPT)
    /\ logged' = run_script_log(RESTART_SCRIPT,
                    logged \cup {"Reset button pressed"})
    /\ UNCHANGED <<pc, shutdown_triggered, shutdown_lock, brownout_counter,
                   uptime, sleep_left, sw_pressed, script_exists,
                   enable_power_fail, polls>>
    /\ UNCHANGED <<collVars, crashVars, toolVars>>

safe_reboot ==
    /\ popen[RESTART_SCRIPT] < MaxRestarts
    /\ popen' = run_script_popen(RESTART_SCRIPT)
    /\ logged' = run_script_log(RESTART_SCRIPT,
                    logged \cup {"Reset button pressed"})
    /\ UNCHANGED <<pc, shutdown_triggered, shutdown_lock, brownout_counter,
                   uptime, sleep_left, sw_pressed, script_exists,
                   enable_power_fail, polls>>
    /\ UNCHANGED <<collVars, crashVars, toolVars>>

(***************************************************************************)
(* brownout_monitor(), lines 185-207.                                      *)
(***************************************************************************)
\* The last MaxPolls poll results, oldest first.
RecordPoll(hist, r) ==
    LET all == Append(hist, r)
    IN  IF Len(all) > MaxPolls THEN Tail(all) ELSE all

\* lines 200-203, mutated: the threshold is off by one
M_ThresholdReached(counter) ==
    BROWNOUT_SHUTDOWN /\ counter > BROWNOUT_TRIGGER_COUNT

\* lines 200-203
ThresholdReached(counter) ==
    BROWNOUT_SHUTDOWN /\ counter >= BROWNOUT_TRIGGER_COUNT

\* line 191: time.sleep(BROWNOUT_CHECK_INTERVAL) is over
BM_Wake ==
    /\ pc["brownout"] = "bm_sleep"
    /\ sleep_left = 0
    /\ pc' = [pc EXCEPT !["brownout"] = "bm_flag"]
    /\ UNCHANGED <<shutdown_triggered, shutdown_lock, brownout_counter, uptime,
                   sleep_left, sw_pressed, script_exists, popen,
                   enable_power_fail, polls, logged>>
    /\ UNCHANGED <<collVars, crashVars, toolVars>>

\* lines 193-194: the flag is read without taking shutdown_lock
BM_ReadFlag ==
    /\ pc["brownout"] = "bm_flag"
    /\ IF shutdown_triggered
       THEN /\ pc' = [pc EXCEPT !["brownout"] = "bm_sleep"]
            /\ sleep_left' = BROWNOUT_CHECK_INTERVAL
       ELSE /\ pc' = [pc EXCEPT !["brownout"] = "bm_poll"]
            /\ UNCHANGED sleep_left
    /\ UNCHANGED <<shutdown_triggered, shutdown_lock, brownout_counter, uptime,
                   sw_pressed, script_exists, popen, enable_power_fail,
                   polls, logged>>
    /\ UNCHANGED <<collVars, crashVars, toolVars>>

\* lines 196-207: one poll of the undervoltage flag and what follows from it
BM_Poll(out) ==
    /\ pc["brownout"] = "bm_poll"
    /\ polls' = RecordPoll(polls, check_undervoltage(out))
    /\ IF check_undervoltage(out)
       THEN /\ brownout_counter' = brownout_counter + 1
            /\ IF ThresholdReached(brownout_counter + 1)
               THEN /\ logged' = logged \cup {"Brownout threshold reached"}
                    /\ pc' = [pc EXCEPT !["brownout"] = "ss_acquire"]
                    /\ UNCHANGED sleep_left
               ELSE /\ pc' = [pc EXCEPT !["brownout"] = "bm_sleep"]
                    /\ sleep_left' = BROWNOUT_CHECK_INTERVAL
                    /\ UNCHANGED logged
       ELSE /\ brownout_counter' = 0
            /\ pc' = [pc EXCEPT !["brownout"] = "bm_sleep"]
            /\ sleep_left' = BROWNOUT_CHECK_INTERVAL
            /\ UNCHANGED logged
    /\ UNCHANGED <<shutdown_triggered, shutdown_lock, uptime, sw_pressed,
                   script_exists, popen, enable_power_fail>>
    /\ UNCHANGED <<collVars, crashVars, toolVars>>

(***************************************************************************)
(* The shutdown switch: the pin and shutdown_edge(), lines 248-257.        *)
(***************************************************************************)
\* The switch closes: gpiozero fires when_pressed (line 257).
SwitchPress ==
    /\ ~sw_pressed
    /\ pc["switch"] = "idle"
    /\ sw_pressed' = TRUE
    /\ pc' = [pc EXCEPT !["switch"] = "se_boot"]
    /\ UNCHANGED <<shutdown_triggered, shutdown_lock, brownout_counter, uptime,
                   sleep_left, script_exists, popen, enable_power_fail,
                   polls, logged>>
    /\ UNCHANGED <<collVars, crashVars, toolVars>>

\* The switch opens again (also a bounce shorter than the callback latency).
SwitchRelease ==
    /\ sw_pressed
    /\ sw_pressed' = FALSE
    /\ UNCHANGED <<pc, shutdown_triggered, shutdown_lock, brownout_counter,
                   uptime, sleep_left, script_exists, popen,
                   enable_power_fail, polls, logged>>
    /\ UNCHANGED <<collVars, crashVars, toolVars>>

\* lines 249-251
SE_BootWindow ==
    /\ pc["switch"] = "se_boot"
    /\ IF uptime < BOOT_IGNORE_TIME
       THEN /\ logged' = logged \cup {"Ignoring switch during boot window"}
            /\ pc' = [pc EXCEPT !["switch"] = "idle"]
       ELSE /\ pc' = [pc EXCEPT !["switch"] = "se_flag"]
            /\ UNCHANGED logged
    /\ UNCHANGED <<shutdown_triggered, shutdown_lock, brownout_counter, uptime,
                   sleep_left, sw_pressed, script_exists, popen,
                   enable_power_fail, polls>>
    /\ UNCHANGED <<collVars, crashVars, toolVars>>

\* lines 252-253: the flag is read without taking shutdown_lock
SE_ReadFlag ==
    /\ pc["switch"] = "se_flag"
    /\ pc' = [pc EXCEPT !["switch"] =
                IF shutdown_triggered THEN "idle" ELSE "se_pin"]
    /\ UNCHANGED <<shutdown_triggered, shutdown_lock, brownout_counter, uptime,
                   sleep_left, sw_pressed, script_exists, popen,
                   enable_power_fail, polls, logged>>
    /\ UNCHANGED <<collVars, crashVars, toolVars>>

\* lines 254-255
SE_ReadPin ==
    /\ pc["switch"] = "se_pin"
    /\ pc' = [pc EXCEPT !["switch"] =
                IF sw_pressed THEN "ss_acquire" ELSE "idle"]
    /\ UNCHANGED <<shutdown_triggered, shutdown_lock, brownout_counter, uptime,
                   sleep_left, sw_pressed, script_exists, popen,
                   enable_power_fail, polls, logged>>
    /\ UNCHANGED <<collVars, crashVars, toolVars>>

(***************************************************************************)
(* power_fail_triggered(), lines 213-230, wired only if ENABLE_POWER_FAIL. *)
(***************************************************************************)
\* The power-fail input is released: gpiozero fires when_released (line 229).
PowerFailEdge ==
    /\ enable_power_fail
    /\ pc["powerfail"] = "idle"
    /\ pc' = [pc EXCEPT !["powerfail"] = "pf_boot"]
    /\ UNCHANGED <<shutdown_triggered, shutdown_lock, brownout_counter, uptime,
                   sleep_left, sw_pressed, script_exists, popen,
                   enable_power_fail, polls, logged>>
    /\ UNCHANGED <<collVars, crashVars, toolVars>>

\* lines 221-222
PF_BootWindow ==
    /\ pc["powerfail"] = "pf_boot"
    /\ pc' = [pc EXCEPT !["powerfail"] =
                IF uptime < BOOT_IGNORE_TIME THEN "idle" ELSE "pf_flag"]
    /\ UNCHANGED <<shutdown_triggered, shutdown_lock, brownout_counter, uptime,
                   sleep_left, sw_pressed, script_exists, popen,
                   enable_power_fail, polls, logged>>
    /\ UNCHANGED <<collVars, crashVars, toolVars>>

\* lines 223-227: the flag is read without taking shutdown_lock
PF_ReadFlag ==
    /\ pc["powerfail"] = "pf_flag"
    /\ IF shutdown_triggered
       THEN /\ pc' = [pc EXCEPT !["powerfail"] = "idle"]
            /\ UNCHANGED logged
       ELSE /\ pc' = [pc EXCEPT !["powerfail"] = "ss_acquire"]
            /\ logged' = logged \cup {"POWER FAIL detected"}
    /\ UNCHANGED <<shutdown_triggered, shutdown_lock, brownout_counter, uptime,
                   sleep_left, sw_pressed, script_exists, popen,
                   enable_power_fail, polls>>
    /\ UNCHANGED <<collVars, crashVars, toolVars>>

NextPM ==
    \/ Tick
    \/ \E t \in Threads : SS_Acquire(t)
    \/ \E t \in Threads : SS_TestAndSet(t)
    \/ \E t \in Threads : SS_Run(t)
    \/ safe_reboot
    \/ BM_Wake
    \/ BM_ReadFlag
    \/ \E out \in ToolOutputs : BM_Poll(out)
    \/ SwitchPress
    \/ SwitchRelease
    \/ SE_BootWindow
    \/ SE_ReadFlag
    \/ SE_ReadPin
    \/ PowerFailEdge
    \/ PF_BootWindow
    \/ PF_ReadFlag

\* The collector, not running.
CollIdle ==
    /\ now = 0
    /\ keys_db = <<>>
    /\ discovered_nodes = <<>>
    /\ nodes = <<>>
    /\ last = [op |-> "off"]

InitPM == PMInit /\ CollIdle /\ CrashIdle /\ ToolsIdle

SpecPM == InitPM /\ [][NextPM]_vars

(***************************************************************************)
(*                     pm-service.py : properties                          *)
(***************************************************************************)

\* C1: however the invocations of safe_shutdown by the switch handler, the
\* brownout monitor and the power-fail handler interleave, Popen is called
\* on the shutdown script at most once; and once the flag is set and the
\* invocation that set it is past run_script, it was called exactly once
\* if the script exists (and not at all if it does not).
C1_SingleShutdownLaunch ==
    /\ popen[SHUTDOWN_SCRIPT] <= 1
    /\ popen[SHUTDOWN_SCRIPT] = 1 => script_exists[SHUTDOWN_SCRIPT]
    /\ (shutdown_triggered /\ \A t \in Threads : pc[t] # "ss_run")
          => popen[SHUTDOWN_SCRIPT] =
                IF script_exists[SHUTDOWN_SCRIPT] THEN 1 ELSE 0

\* C1 witness: the switch handler has launched the script while the brownout
\* monitor holds the lock inside safe_shutdown and the power-fail handler
\* waits for it.
C1_Witness ==
    /\ popen[SHUTDOWN_SCRIPT] = 1
    /\ "Shutdown initiated (switch)" \in logged
    /\ pc["brownout"] = "ss_locked"
    /\ pc["powerfail"] = "ss_acquire"

\* Number of positive results at the end of a poll history.
RECURSIVE TrailingPositives(_)
TrailingPositives(h) ==
    IF h = <<>> \/ ~h[Len(h)] THEN 0
    ELSE 1 + TrailingPositives(SubSeq(h, 1, Len(h) - 1))

BrownoutCalled == "Brownout threshold reached" \in logged

\* C4: the consecutive-hit counter is the number of positive polls since the
\* last negative one (a tool error counts as negative), and the monitor
\* calls safe_shutdown("brownout") exactly when that number reaches 3: not
\* after 2, and never without 3 positive polls in a row.
C4_BrownoutDebounce ==
    /\ brownout_counter = TrailingPositives(polls)
    /\ BrownoutCalled <=> TrailingPositives(polls) >= BROWNOUT_TRIGGER_COUNT
    /\ InSafeShutdown("brownout") => BrownoutCalled
    /\ "Shutdown initiated (brownout)" \in logged => BrownoutCalled

\* C4 witness: a negative poll, then three positive ones, and the monitor
\* has initiated the shutdown.
C4_Witness ==
    /\ polls = <<FALSE, TRUE, TRUE, TRUE>>
    /\ "Shutdown initiated (brownout)" \in logged
    /\ popen[SHUTDOWN_SCRIPT] = 1

\* The step is one taken by the shutdown-switch callback from position p
SwitchStepFrom(p) == pc["switch"] = p /\ pc'["switch"] # p

\* What a callback that ignores the edge leaves alone
SwitchIgnored ==
    /\ pc'["switch"] = "idle"
    /\ UNCHANGED <<shutdown_triggered, shutdown_lock, brownout_counter, popen>>

\* C21: the callback of a press of the shutdown switch ends at once, with
\* no shutdown launched and flag, counter and launches as they were, when
\* less than 5 seconds have passed since start or when shutdown_triggered
\* is already set; otherwise it reads the pin: if the switch is still
\* pressed it calls safe_shutdown("switch") (which launches the shutdown
\* script under the reason "switch" unless another caller got there first),
\* and if the switch is open again nothing happens.
C21_SwitchEdge ==
    [][/\ SwitchStepFrom("se_boot") =>
            IF uptime < BOOT_IGNORE_TIME THEN SwitchIgnored
            ELSE pc'["switch"] = "se_flag"
       /\ SwitchStepFrom("se_flag") =>
            IF shutdown_triggered THEN SwitchIgnored
            ELSE pc'["switch"] = "se_pin"
       /\ SwitchStepFrom("se_pin") =>
            /\ UNCHANGED <<shutdown_triggered, shutdown_lock,
                           brownout_counter, popen, logged>>
            /\ IF sw_pressed THEN pc'["switch"] = "ss_acquire"
               ELSE pc'["switch"] = "idle"
       /\ SwitchStepFrom("ss_locked") =>
            IF shutdown_triggered
            THEN pc'["switch"] = "idle" /\ UNCHANGED <<popen, logged>>
            ELSE pc'["switch"] = "ss_run" /\ shutdown_triggered'
       /\ SwitchStepFrom("ss_run") =>
            /\ "Shutdown initiated (switch)" \in logged'
            /\ popen'[SHUTDOWN_SCRIPT] = popen[SHUTDOWN_SCRIPT]
                  + (IF script_exists[SHUTDOWN_SCRIPT] THEN 1 ELSE 0)
       /\ "Shutdown initiated (switch)" \in logged'
            => uptime' >= BOOT_IGNORE_TIME /\ shutdown_triggered'
      ]_vars

\* C21 witness: a press in the boot window was ignored, a later press with
\* the switch held launched the shutdown script.
C21_Witness ==
    /\ "Ignoring switch during boot window" \in logged
    /\ "Shutdown initiated (switch)" \in logged
    /\ popen[SHUTDOWN_SCRIPT] = 1
    /\ pc["switch"] = "idle"

\* The step is a press of the reset button: something is launched or
\* logged and no thread or callback of the service moves
ResetStep == pc' = pc /\ (popen' # popen \/ logged' # logged)

\* C22: a press of the reset button is honoured in every state of the
\* service (in the boot window, after a shutdown was triggered, after
\* earlier presses), and every press calls run_script on the restart
\* script: one more launch when the script exists, the missing script
\* logged when it does not; the press leaves shutdown_triggered, the lock,
\* the brownout counter and the launches of the shutdown script alone.
C22_ResetAlways ==
    [][/\ popen[RESTART_SCRIPT] < MaxRestarts => ENABLED safe_reboot
       /\ ResetStep =>
            /\ "Reset button pressed" \in logged'
            /\ popen'[RESTART_SCRIPT] = popen[RESTART_SCRIPT]
                  + (IF script_exists[RESTART_SCRIPT] THEN 1 ELSE 0)
            /\ ~script_exists[RESTART_SCRIPT]
                  => ("Missing script: " \o RESTART_SCRIPT) \in logged'
            /\ popen'[SHUTDOWN_SCRIPT] = popen[SHUTDOWN_SCRIPT]
            /\ UNCHANGED <<shutdown_triggered, shutdown_lock,
                           brownout_counter>>
      ]_vars

\* C22 witness: the restart script was launched twice inside the boot
\* window.
C22_Witness ==
    /\ popen[RESTART_SCRIPT] = 2
    /\ uptime < BOOT_IGNORE_TIME
    /\ ~shutdown_triggered
    /\ brownout_counter = 0

\* The positions whose next step tests shutdown_triggered: lines 193, 223,
\* 252 and, inside safe_shutdown, line 150
FlagReadPcs == {"bm_flag", "pf_flag", "se_flag", "ss_locked"}

\* C17: a thread of the GPIO service that is about to test
\* shutdown_triggered (the brownout monitor's per-tick skip, the power-fail
\* handler, the shutdown-switch handler, safe_shutdown) holds shutdown_lock.
C17_FlagReadUnderLock ==
    \A t \in Threads : pc[t] \in FlagReadPcs => shutdown_lock = t

(***************************************************************************)
(*            pm-fleet-dashboard/server.py : constants and data            *)
(***************************************************************************)
NODE_TIMEOUT == 25
TIMESTAMP_SKEW == 120
DEFAULT_PORT == 8090

\* Bound of the model: the collector's clock stops here.
MaxNow == 26
\* The collector is observed at start and 24, 25 and 26 seconds later, the
\* ages around NODE_TIMEOUT.
TimeSteps == {24, 25, 26}

None == "<None>"
Ips == {"10.0.0.1", "10.0.0.2"}
DeviceIds == {"dev1", "dev2"}

\* dict.get(key, default)
Get(d, k, default) == IF k \in DOMAIN d THEN d[k] ELSE default
\* d[key] = value
Put(d, k, v) == IF k \in DOMAIN d THEN [d EXCEPT ![k] = v] ELSE (k :> v) @@ d
\* Python truth of a string or None
Truthy(v) == v # None /\ v # ""

\* Contents of the key file when the collector starts (load_keys, lines
\* 60-67; a missing or corrupt file reads as no devices).
InitKeyDbs ==
    { [d \in {} |-> None],
      [d \in {"dev1"} |-> [active_key |-> "A", next_key |-> "B", epoch |-> 1]],
      [d \in {"dev1"} |-> [active_key |-> "A", next_key |-> None, epoch |-> 1]],
      [d \in {"dev1"} |-> [next_key |-> "B", epoch |-> 0]],
      [d \in DeviceIds |->
          IF d = "dev1" THEN [active_key |-> "A", next_key |-> "B"]
          ELSE [active_key |-> "B", next_key |-> None, epoch |-> 3]] }

\* Contents of nodes.json (load_nodes, lines 292-299): a list of entries,
\* each with optional ip, port and name.
StaticConfigs ==
    { <<[ip |-> "10.0.0.1", name |-> "alpha"], [name |-> "ghost"]>>,
      <<[ip |-> "10.0.0.2", port |-> 8095]>> }

(***************************************************************************)
(* sign_payload / verify_with_key, lines 105-115.                          *)
(***************************************************************************)
\* json.dumps(payload, sort_keys=True, separators=(",", ":")): the members
\* of the object in the order of their keys.
SortedKeys ==
    <<"cmd", "device", "epoch", "hostname", "port", "ts", "type", "version">>

RECURSIVE Encode(_, _)
Encode(payload, i) ==
    IF i > Len(SortedKeys) THEN <<>>
    ELSE IF SortedKeys[i] \in DOMAIN payload
         THEN <<<<SortedKeys[i], payload[SortedKeys[i]]>>>>
                 \o Encode(payload, i + 1)
         ELSE Encode(payload, i + 1)

\* hmac.new(key, msg, sha256).hexdigest(): determined by, and determining,
\* the key and the encoded message.
sign_payload(payload, key) == [key |-> key, msg |-> Encode(payload, 1)]

verify_with_key(payload, sig, key_str) ==
    IF ~Truthy(key_str) THEN FALSE
    ELSE sign_payload(payload, key_str) = sig

\* msg.pop("sig", "") of a datagram that carries no signature
NoSig == [key |-> "", msg |-> <<>>]

(***************************************************************************)
(* Key database, lines 77-98.                                              *)
(***************************************************************************)
\* get_device_record(device_id); None when the device has no record
HasRecord(db, device_id) ==
    device_id \in DOMAIN db /\ DOMAIN db[device_id] # {}

\* promote_next_key(device_id), mutated: the staged key is not cleared
M_promote_keeps_next(db, device_id) ==
    IF ~HasRecord(db, device_id) THEN db
    ELSE IF ~Truthy(Get(db[device_id], "next_key", None)) THEN db
    ELSE [db EXCEPT ![device_id] =
            Put(Put(@, "active_key", Get(@, "next_key", None)),
                "epoch", Get(@, "epoch", 0) + 1)]

\* promote_next_key(device_id), mutated: the epoch is left as it was
M_promote_next_key(db, device_id) ==
    IF ~HasRecord(db, device_id) THEN db
    ELSE IF ~Truthy(Get(db[device_id], "next_key", None)) THEN db
    ELSE [db EXCEPT ![device_id] =
            Put(Put(Put(@, "active_key", Get(@, "next_key", None)),
                    "next_key", None),
                "epoch", Get(@, "epoch", 0))]

\* promote_next_key(device_id): the database that save_keys writes
promote_next_key(db, device_id) ==
    IF ~HasRecord(db, device_id) THEN db
    ELSE IF ~Truthy(Get(db[device_id], "next_key", None)) THEN db
    ELSE [db EXCEPT ![device_id] =
            Put(Put(Put(@, "active_key", Get(@, "next_key", None)),
                    "next_key", None),
                "epoch", Get(@, "epoch", 0) + 1)]

(***************************************************************************)
(* Datagrams arriving on the discovery port.                               *)
(***************************************************************************)
\* The fields of a beacon other than sig, sent at collector time now + off.
BeaconBody(device, off) ==
    LET base == [type |-> "pm-node", ts |-> now + off,
                 hostname |-> "pi", port |-> 8095]
    IN  IF device = None THEN base
        ELSE Put(base, "device", [device_id |-> device])

\* A beacon signed with `key` (unsigned when key is ""); when ~bound the
\* signature was computed over the same fields with an older ts.
Beacon(device, off, key, bound) ==
    LET body == BeaconBody(device, off)
        signed == IF bound THEN body ELSE Put(body, "ts", now + off - 1000)
    IN  IF key = "" THEN body
        ELSE Put(body, "sig", sign_payload(signed, key))

SkewOffsets == {0 - 121, 0 - 120, 0, 120, 121}

BeaconIn(d, o, k, b) ==
    [kind |-> "beacon", device |-> d, off |-> o, key |-> k, bound |-> b]

\* What the listener is given: bytes that are not JSON, a JSON object of
\* another type, and beacons: of a device, signed with a key, at each skew;
\* unsigned; with a signature made for other fields; without a device.
DatagramInputs ==
    { [kind |-> "not-json"], [kind |-> "other-type"] }
    \cup { BeaconIn("dev1", o, k, TRUE) : o \in SkewOffsets, k \in {"A", "B"} }
    \cup { BeaconIn("dev1", 0, "", TRUE),
           BeaconIn("dev1", 0, "A", FALSE),
           BeaconIn("dev1", 0, "B", FALSE),
           BeaconIn("dev2", 0, "B", TRUE),
           BeaconIn(None, 0, "A", TRUE) }

\* The datagrams and the addresses they come from.
Arrivals ==
    { <<"10.0.0.1", in>> : in \in DatagramInputs }
    \cup { <<"10.0.0.2", BeaconIn("dev1", 0, k, TRUE)>> : k \in {"A", "B"} }
    \cup { <<"10.0.0.2", BeaconIn("dev2", 0, "B", TRUE)>> }

\* json.loads(data.decode()) of the datagram (only called when it is JSON)
Parsed(in) ==
    IF in.kind = "other-type" THEN [type |-> "pm-status", ts |-> now]
    ELSE Beacon(in.device, in.off, in.key, in.bound)
(***************************************************************************)
(* discovery_listener(), lines 122-175: one datagram.                      *)
(***************************************************************************)
Abs(x) == IF x < 0 THEN 0 - x ELSE x

\* msg.pop("sig", ""): the signature, and the message without it
PopSig(msg) == Get(msg, "sig", NoSig)
WithoutSig(msg) == [f \in DOMAIN msg \ {"sig"} |-> msg[f]]

\* line 140, mutated: the boundary is exclusive
M_SkewExceeded(t, ts) == Abs(t - ts) >= TIMESTAMP_SKEW

\* line 140: abs(time.time() - ts) > TIMESTAMP_SKEW
SkewExceeded(t, ts) == Abs(t - ts) > TIMESTAMP_SKEW

\* device.get("device_id") of msg.get("device", {}), lines 143-144
DeviceIdOf(msg) ==
    IF "device" \in DOMAIN msg THEN Get(msg["device"], "device_id", None)
    ELSE None

\* lines 155-164, mutated: the staged key is accepted without any check
M_CheckSignature(msg, sig, rec) ==
    IF verify_with_key(msg, sig, Get(rec, "active_key", None)) THEN "active"
    ELSE IF Truthy(Get(rec, "next_key", None)) THEN "promoted"
    ELSE "bad-sig"

\* lines 155-164: the active key first, then the staged one
CheckSignature(msg, sig, rec) ==
    IF verify_with_key(msg, sig, Get(rec, "active_key", None)) THEN "active"
    ELSE IF verify_with_key(msg, sig, Get(rec, "next_key", None)) THEN "promoted"
    ELSE "bad-sig"

\* lines 133-164: what the listener decides about a parsed datagram
ClassifyMsg(whole) ==
    IF Get(whole, "type", None) # "pm-node" THEN "wrong-type"
    ELSE IF SkewExceeded(now, Get(whole, "ts", 0)) THEN "skew"
    ELSE IF ~Truthy(DeviceIdOf(whole)) THEN "no-device"
    ELSE IF ~HasRecord(keys_db, DeviceIdOf(whole)) THEN "unknown-device"
    ELSE CheckSignature(WithoutSig(whole), PopSig(whole),
                        keys_db[DeviceIdOf(whole)])

\* lines 131-164: json.loads raising is caught at line 174
Classify(in) ==
    IF in.kind = "not-json" THEN "error" ELSE ClassifyMsg(Parsed(in))

\* lines 155-166, mutated: the beacon that promotes is not stored
M_Accepted(verdict) == verdict = "active"

\* lines 155-166: the beacon reaches the store of line 166
Accepted(verdict) == verdict \in {"active", "promoted"}

\* The position of ip in the cache, 0 when it has no entry
RECURSIVE IndexOf(_, _, _)
IndexOf(cache, ip, i) ==
    IF i > Len(cache) THEN 0
    ELSE IF cache[i].ip = ip THEN i
    ELSE IndexOf(cache, ip, i + 1)

\* discovered_nodes[ip] = entry: a dict keeps the place of a key it has
Upsert(cache, entry) ==
    IF IndexOf(cache, entry.ip, 1) = 0 THEN Append(cache, entry)
    ELSE [cache EXCEPT ![IndexOf(cache, entry.ip, 1)] = entry]

\* lines 166-172
NodeEntry(src, msg) ==
    [ip |-> src,
     port |-> Get(msg, "port", DEFAULT_PORT),
     device |-> Get(msg, "device", <<>>),
     hostname |-> Get(msg, "hostname", ""),
     last_seen |-> now]

\* One pass of the loop at lines 128-175 for a datagram from src.
discovery_listener(src, in) ==
    /\ \E whole \in {IF in.kind = "not-json" THEN <<>> ELSE Parsed(in)} :
       \E verdict \in {IF in.kind = "not-json" THEN "error"
                       ELSE ClassifyMsg(whole)} :
         /\ keys_db' = IF verdict = "promoted"
                       THEN promote_next_key(keys_db, DeviceIdOf(whole))
                       ELSE keys_db
         /\ discovered_nodes' =
               IF Accepted(verdict)
               THEN Upsert(discovered_nodes, NodeEntry(src, WithoutSig(whole)))
               ELSE discovered_nodes
         /\ last' = [op |-> "rx", src |-> src, in |-> in, verdict |-> verdict]
    /\ UNCHANGED <<now, nodes>>
    /\ UNCHANGED <<pmVars, crashVars, toolVars>>

\* Time passes on the collector.
Advance(d) ==
    /\ now + d <= MaxNow
    /\ now' = now + d
    /\ UNCHANGED <<keys_db, discovered_nodes, nodes, last>>
    /\ UNCHANGED <<pmVars, crashVars, toolVars>>
(***************************************************************************)
(* fetch_node and collect_status, lines 182-238: GET /api/fleet.           *)
(***************************************************************************)
\* The status document a node serves on /api/status.
NodeStatus(ip) ==
    [device |-> [device_id |-> "id-of-" \o ip], hostname |-> "pi",
     uptime_sec |-> 60, boot_health |-> [score |-> 100]]

\* fetch_node, mutated: the offline record ignores the fallback identity
M_fetch_node(ip, port, fallback_device, ok) ==
    IF ok THEN Put(NodeStatus(ip), "ip", ip)
    ELSE [device |-> [device_id |-> ip],
          hostname |-> "offline",
          boot_health |-> [score |-> 0],
          uptime_sec |-> 0,
          ip |-> ip]

\* fetch_node(ip, port, fallback_device); ok: urlopen and json.loads gave a
\* document, anything else (timeout, refused, bad body) is the except branch
fetch_node(ip, port, fallback_device, ok) ==
    IF ok THEN Put(NodeStatus(ip), "ip", ip)
    ELSE [device |-> IF DOMAIN fallback_device # {} THEN fallback_device
                     ELSE [device_id |-> ip],
          hostname |-> "offline",
          boot_health |-> [score |-> 0],
          uptime_sec |-> 0,
          ip |-> ip]

\* lines 210-218: the static entries from position i on; up: the nodes
\* whose status fetch succeeds during this request
RECURSIVE StaticResults(_, _, _)
StaticResults(list, i, up) ==
    IF i > Len(list) THEN <<>>
    ELSE LET node == list[i]
             ip == Get(node, "ip", None)
             port == Get(node, "port", DEFAULT_PORT)
         IN  IF ~Truthy(ip) THEN StaticResults(list, i + 1, up)
             ELSE <<fetch_node(ip, port, [device_id |-> Get(node, "name", ip)],
                               ip \in up)>>
                     \o StaticResults(list, i + 1, up)

\* seen_ips, mutated: the static ips are not remembered
M_SeenIps(list) == {}

\* seen_ips after the loop over the static entries
SeenIps(list) ==
    {Get(list[i], "ip", None) : i \in 1..Len(list)} \ {None, ""}

\* line 223, mutated: an entry goes stale one second early
M_IsStale(t, n) == t - n.last_seen >= NODE_TIMEOUT

\* line 223: now - n["last_seen"] > NODE_TIMEOUT
IsStale(t, n) == t - n.last_seen > NODE_TIMEOUT

\* lines 221-227: the entries that stay, in order
RECURSIVE Purge(_, _)
Purge(cache, t) ==
    IF cache = <<>> THEN <<>>
    ELSE IF IsStale(t, Head(cache)) THEN Purge(Tail(cache), t)
    ELSE <<Head(cache)>> \o Purge(Tail(cache), t)

\* lines 221-224: the list `stale`
RECURSIVE StaleIps(_, _)
StaleIps(cache, t) ==
    IF cache = <<>> THEN <<>>
    ELSE IF IsStale(t, Head(cache)) THEN <<Head(cache).ip>> \o StaleIps(Tail(cache), t)
    ELSE StaleIps(Tail(cache), t)

\* lines 230-236: the discovered entries not covered by a static ip
RECURSIVE DiscoveredResults(_, _, _)
DiscoveredResults(cache, seen, up) ==
    IF cache = <<>> THEN <<>>
    ELSE LET node == Head(cache)
         IN  IF node.ip \in seen THEN DiscoveredResults(Tail(cache), seen, up)
             ELSE <<fetch_node(node.ip, node.port, node.device, node.ip \in up)>>
                     \o DiscoveredResults(Tail(cache), seen, up)

\* collect_status(): the list it returns
collect_status(up) ==
    StaticResults(nodes, 1, up)
        \o DiscoveredResults(Purge(discovered_nodes, now), SeenIps(nodes), up)

\* Handler.do_GET for /api/fleet, lines 307-317
GetFleet(up) ==
    /\ discovered_nodes' = Purge(discovered_nodes, now)
    /\ last' = [op |-> "fleet", status |-> 200, at |-> now, up |-> up,
                stale |-> StaleIps(discovered_nodes, now),
                body |-> collect_status(up)]
    /\ UNCHANGED <<now, keys_db, nodes>>
    /\ UNCHANGED <<pmVars, crashVars, toolVars>>

(***************************************************************************)
(* send_command and Handler.do_POST, lines 245-344: POST /api/cmd.         *)
(***************************************************************************)
\* lines 247-251: the device_id of the first cache entry with this ip
RECURSIVE LookupDevice(_, _)
LookupDevice(cache, ip) ==
    IF cache = <<>> THEN None
    ELSE IF Head(cache).ip = ip THEN Get(Head(cache).device, "device_id", None)
    ELSE LookupDevice(Tail(cache), ip)

\* lines 248-251: last_seen of the cache entry the lookup stops at; the
\* lookup does not compare it with the clock
RECURSIVE LookupLastSeen(_, _)
LookupLastSeen(cache, ip) ==
    IF cache = <<>> THEN None
    ELSE IF Head(cache).ip = ip THEN Head(cache).last_seen
    ELSE LookupLastSeen(Tail(cache), ip)

\* lines 253-262, mutated: a staged key, when there is one, signs the command
M_CommandKey(ip) ==
    LET device_id == LookupDevice(discovered_nodes, ip)
    IN  IF ~Truthy(device_id) THEN None
        ELSE IF ~HasRecord(keys_db, device_id) THEN None
        ELSE IF Truthy(Get(keys_db[device_id], "next_key", None))
             THEN keys_db[device_id].next_key
        ELSE IF ~Truthy(Get(keys_db[device_id], "active_key", None)) THEN None
        ELSE keys_db[device_id].active_key

\* lines 253-262: the key the command is signed with, None when a lookup fails
CommandKey(ip) ==
    LET device_id == LookupDevice(discovered_nodes, ip)
    IN  IF ~Truthy(device_id) THEN None
        ELSE IF ~HasRecord(keys_db, device_id) THEN None
        ELSE IF ~Truthy(Get(keys_db[device_id], "active_key", None)) THEN None
        ELSE keys_db[device_id].active_key

\* lines 264-269
CommandPayload(cmd, key) ==
    LET payload == [cmd |-> cmd, ts |-> now]
    IN  Put(payload, "sig", sign_payload(payload, key))

\* What urllib.request.urlopen(req, timeout=3) can do (lines 273-285):
\*   "ok"        the node answered 2xx
\*   "urlerror"  URLError: connection refused or unreachable, connect
\*               timeout, or an HTTP error status (HTTPError)
\*   "timeout"   socket.timeout while waiting for the response
\*   "reset"     ConnectionResetError while waiting for the response
\* http.client raises the last two from getresponse(); urllib wraps only
\* the errors of sending the request into URLError.
SendOutcomes == {"ok", "urlerror", "timeout", "reset"}

\* send_command(ip, cmd): "true", "false", or "raise" when an exception
\* other than URLError leaves the function
send_command(ip, cmd, outcome) ==
    IF CommandKey(ip) = None THEN "false"
    ELSE IF outcome = "ok" THEN "true"
    ELSE IF outcome = "urlerror" THEN "false"
    ELSE "raise"

\* Request bodies: not JSON, or an object with optional ip and cmd.
Bodies ==
    { [raw |-> "not json"], [cmd |-> "reboot"], [ip |-> "10.0.0.1"] }
    \cup { [ip |-> i, cmd |-> "reboot"] : i \in Ips }

WellFormed(body) ==
    /\ "raw" \notin DOMAIN body
    /\ Truthy(Get(body, "ip", None))
    /\ Truthy(Get(body, "cmd", None))

\* lines 327-344: the status code answered on /api/cmd
CmdStatus(body, outcome) ==
    IF ~WellFormed(body) THEN 400
    ELSE LET ok == send_command(body.ip, body.cmd, outcome)
         IN  IF ok = "raise" THEN 400
             ELSE IF ok = "true" THEN 200
             ELSE 500

\* What one POST /api/cmd did besides answering: the payload handed to
\* urlopen when one was, and last_seen of the cache entry the lookup used
\* when it found one.
CmdTrace(body) ==
    IF ~WellFormed(body) THEN <<>>
    ELSE (IF CommandKey(body.ip) # None
          THEN [sent |-> CommandPayload(body.cmd, CommandKey(body.ip))]
          ELSE <<>>)
         @@
         (IF body.ip \in {discovered_nodes[i].ip : i \in 1..Len(discovered_nodes)}
          THEN [used_last_seen |-> LookupLastSeen(discovered_nodes, body.ip)]
          ELSE <<>>)

\* Handler.do_POST, lines 321-344
PostCmd(path, body, outcome) ==
    /\ last' = IF path # "/api/cmd"
               THEN [op |-> "post", path |-> path, status |-> 404]
               ELSE [op |-> "cmd", body |-> body, at |-> now,
                     send |-> IF WellFormed(body) /\ CommandKey(body.ip) # None
                              THEN outcome ELSE "not-sent",
                     key |-> IF WellFormed(body) THEN CommandKey(body.ip)
                             ELSE None,
                     status |-> CmdStatus(body, outcome)]
                    @@ CmdTrace(body)
    /\ UNCHANGED <<now, keys_db, discovered_nodes, nodes>>
    /\ UNCHANGED <<pmVars, crashVars, toolVars>>

\* The POST requests made: another path, each body, and for a well-formed
\* body each outcome of the outbound send.
PostRequests ==
    { <<"/api/other", [cmd |-> "reboot"], "ok">> }
    \cup { <<"/api/cmd", b, "ok">> : b \in Bodies }
    \cup { <<"/api/cmd", [ip |-> "10.0.0.1", cmd |-> "reboot"], o>> :
             o \in SendOutcomes }

(***************************************************************************)
(*                  The collector as a state machine                       *)
(***************************************************************************)
CollInit ==
    /\ now = 0
    /\ keys_db \in InitKeyDbs
    /\ discovered_nodes = <<>>
    /\ nodes \in StaticConfigs
    /\ last = [op |-> "start"]

\* The power manager, not running.
PMIdle ==
    /\ pc = [t \in Threads |-> "off"]
    /\ shutdown_triggered = FALSE
    /\ shutdown_lock = Free
    /\ brownout_counter = 0
    /\ uptime = 0
    /\ sleep_left = 0
    /\ sw_pressed = FALSE
    /\ script_exists = [s \in Scripts |-> FALSE]
    /\ popen = [s \in Scripts |-> 0]
    /\ enable_power_fail = FALSE
    /\ polls = <<>>
    /\ logged = {}

InitColl == CollInit /\ PMIdle /\ CrashIdle /\ ToolsIdle

NextColl ==
    \/ \E d \in TimeSteps : Advance(d)
    \/ \E a \in Arrivals : discovery_listener(a[1], a[2])
    \/ \E up \in SUBSET Ips : GetFleet(up)
    \/ \E r \in PostRequests : PostCmd(r[1], r[2], r[3])

SpecColl == InitColl /\ [][NextColl]_vars

(***************************************************************************)
(*              pm-fleet-dashboard/server.py : properties                  *)
(***************************************************************************)
\* The step is one pass of the listener: last' describes its datagram.
RxStep == last'.op = "rx" /\ now' = now
\* The step is one GET /api/fleet: last' describes the request.
FleetStep == last'.op = "fleet" /\ now' = now

Range(seq) == {seq[i] : i \in 1..Len(seq)}
CacheIps(cache) == {cache[i].ip : i \in 1..Len(cache)}
BodyIps(body) == {body[i].ip : i \in 1..Len(body)}
StaticIps == {nodes[i].ip : i \in {j \in 1..Len(nodes) : "ip" \in DOMAIN nodes[j]}}

\* The beacon was signed with key k over exactly the fields it carries.
SignedWith(in, k) == in.kind = "beacon" /\ in.bound /\ in.key = k /\ k # ""
Timely(in) == in.kind = "beacon" /\ Abs(in.off) <= 120

RecAB1 == [active_key |-> "A", next_key |-> "B", epoch |-> 1]
RecB2 == [active_key |-> "B", next_key |-> None, epoch |-> 2]

\* C2: with the record active_key=A, next_key=B, epoch=1, a timely beacon of
\* the device signed with B makes the record active_key=B, next_key cleared,
\* epoch=2, and the beacon is accepted (the sender's entry is refreshed);
\* from then on a beacon signed with A is rejected and changes neither the
\* cache nor the database.
C2_KeyPromotion ==
    [][RxStep =>
        \A d \in DOMAIN keys_db :
          (last'.in.kind = "beacon" /\ last'.in.device = d) =>
            /\ (keys_db[d] = RecAB1 /\ SignedWith(last'.in, "B") /\ Timely(last'.in))
                 => /\ keys_db'[d] = RecB2
                    /\ Accepted(last'.verdict)
                    /\ \E e \in Range(discovered_nodes') :
                         /\ e.ip = last'.src
                         /\ e.last_seen = now
                         /\ e.device.device_id = d
            /\ (keys_db[d] = RecB2 /\ last'.in.key = "A")
                 => /\ ~Accepted(last'.verdict)
                    /\ discovered_nodes' = discovered_nodes
                    /\ keys_db' = keys_db
      ]_vars

\* C2 witness: the record has been promoted to B at epoch 2, the promoting
\* beacon left an entry, and a well-formed beacon signed with A was refused.
C2_Witness ==
    /\ last.op = "rx"
    /\ last.in = BeaconIn("dev1", 0, "A", TRUE)
    /\ last.verdict = "bad-sig"
    /\ DOMAIN keys_db = {"dev1"}
    /\ keys_db["dev1"] = RecB2
    /\ discovered_nodes # <<>>

\* C3: a beacon whose ts is more than 120 s from the collector's time is
\* rejected at the timestamp check, whatever its signature, and cache and
\* database stay as they are; at exactly 120 s it passes that check (and is
\* accepted when the active key signed it).
C3_TimestampSkew ==
    [][(RxStep /\ last'.in.kind = "beacon") =>
        /\ Abs(last'.in.off) > 120
             => /\ last'.verdict = "skew"
                /\ discovered_nodes' = discovered_nodes
                /\ keys_db' = keys_db
        /\ Abs(last'.in.off) = 120
             => /\ last'.verdict # "skew"
                /\ \A d \in DOMAIN keys_db :
                     (/\ last'.in.device = d
                      /\ "active_key" \in DOMAIN keys_db[d]
                      /\ SignedWith(last'.in, keys_db[d].active_key))
                       => /\ last'.verdict = "active"
                          /\ last'.src \in CacheIps(discovered_nodes')
      ]_vars

\* C3 witness: a beacon signed with the device's active key is refused for a
\* ts 121 s ahead, while the cache holds an entry.
C3_Witness ==
    /\ last.op = "rx"
    /\ last.in = BeaconIn("dev1", 121, "A", TRUE)
    /\ last.verdict = "skew"
    /\ DOMAIN keys_db = {"dev1"}
    /\ Get(keys_db["dev1"], "active_key", None) = "A"
    /\ discovered_nodes # <<>>

\* C5: at GET /api/fleet, a cached node whose ip is not a static entry's is
\* dropped from the cache and absent from the response when its last
\* accepted beacon is more than 25 s older than the request, and is in the
\* response when it is 25 s old or less (24 s in particular).
C5_StalePurge ==
    [][FleetStep =>
        \A e \in Range(discovered_nodes) :
          e.ip \notin StaticIps =>
            /\ now - e.last_seen > 25
                 => /\ e.ip \notin BodyIps(last'.body)
                    /\ e.ip \notin CacheIps(discovered_nodes')
            /\ now - e.last_seen <= 25
                 => /\ e.ip \in BodyIps(last'.body)
                    /\ e \in Range(discovered_nodes')
      ]_vars

\* C5 witness: a request 26 s after the beacon of 10.0.0.1, which is not a
\* static entry: the node was purged and is not in the response.
C5_Witness ==
    /\ last.op = "fleet"
    /\ last.at = 26
    /\ last.stale = <<"10.0.0.1">>
    /\ "10.0.0.1" \notin StaticIps
    /\ "10.0.0.1" \notin BodyIps(last.body)
    /\ "10.0.0.1" \notin CacheIps(discovered_nodes)
    /\ last.body # <<>>

\* The synthetic record of a static entry whose fetch failed.
OfflineRecord(node) ==
    [device |-> [device_id |-> IF "name" \in DOMAIN node THEN node.name
                               ELSE node.ip],
     hostname |-> "offline",
     boot_health |-> [score |-> 0],
     uptime_sec |-> 0,
     ip |-> node.ip]

\* C6: GET /api/fleet answers 200 whichever fetches fail; every static entry
\* whose fetch failed is in the response as the synthetic offline record
\* (device_id its name, or its ip without a name), and every static entry
\* and every cached node is in the response whether its fetch failed or not.
C6_OfflineFallback ==
    [][FleetStep =>
        /\ last'.status = 200
        /\ \A k \in 1..Len(nodes) :
             "ip" \in DOMAIN nodes[k] =>
               /\ nodes[k].ip \in BodyIps(last'.body)
               /\ nodes[k].ip \notin last'.up
                    => OfflineRecord(nodes[k]) \in Range(last'.body)
        /\ CacheIps(discovered_nodes') \subseteq BodyIps(last'.body)
        /\ Len(last'.body) = Cardinality(StaticIps \cup CacheIps(discovered_nodes'))
      ]_vars

\* C6 witness: the static node alpha is unreachable and reported offline
\* under its name, next to a discovered node that answered.
C6_Witness ==
    /\ last.op = "fleet"
    /\ last.up = {"10.0.0.2"}
    /\ Len(last.body) = 2
    /\ last.body[1].hostname = "offline"
    /\ last.body[1].device.device_id = "alpha"
    /\ last.body[1].boot_health.score = 0
    /\ last.body[2].hostname = "pi"

\* The static entries that have an ip, in the order of nodes.json.
HasIp(node) == "ip" \in DOMAIN node /\ node.ip # ""
StaticWithIp == SelectSeq(nodes, HasIp)

\* The cached nodes that are not stale at the request and whose ip is not a
\* static entry's, in the order of the cache.
FreshAndNew(e) == now - e.last_seen <= NODE_TIMEOUT /\ e.ip \notin StaticIps
DiscoveredOnly == SelectSeq(discovered_nodes, FreshAndNew)

\* C26: the response of GET /api/fleet holds one record for every static
\* entry that has an ip, reachable or not, in the order of the entries,
\* followed by one record for every cached node that is not stale and whose
\* ip is not a static ip; a cached node with a static ip gets no record of
\* its own.
C26_FleetComposition ==
    [][FleetStep =>
        /\ Len(last'.body) = Len(StaticWithIp) + Len(DiscoveredOnly)
        /\ \A k \in 1..Len(StaticWithIp) :
               last'.body[k].ip = StaticWithIp[k].ip
        /\ \A j \in 1..Len(DiscoveredOnly) :
               last'.body[Len(StaticWithIp) + j].ip = DiscoveredOnly[j].ip
        /\ \A e \in Range(discovered_nodes) :
               e.ip \in StaticIps =>
                 Cardinality({k \in 1..Len(last'.body) : last'.body[k].ip = e.ip})
                   = Cardinality({k \in 1..Len(StaticWithIp) :
                                     StaticWithIp[k].ip = e.ip})
      ]_vars

\* C26 witness: 10.0.0.2 is a static entry and has beaconed, 10.0.0.1 has
\* beaconed only; the response is the static record, then the discovered
\* one, with the static node unreachable.
C26_Witness ==
    /\ last.op = "fleet"
    /\ StaticIps = {"10.0.0.2"}
    /\ {"10.0.0.1", "10.0.0.2"} \subseteq CacheIps(discovered_nodes)
    /\ Len(last.body) = 2
    /\ last.body[1].ip = "10.0.0.2"
    /\ last.body[1].hostname = "offline"
    /\ last.body[2].ip = "10.0.0.1"

\* The epoch of a device's record; a record without one counts as 0
EpochOf(db, d) == IF d \in DOMAIN db THEN Get(db[d], "epoch", 0) ELSE 0

\* C8: over all collector steps (datagrams, GET /api/fleet, POST /api/cmd,
\* time) no device's stored epoch decreases; it changes only in a listener
\* pass that promotes that device's staged key, and every promotion raises
\* it by exactly 1.
C8_EpochMonotone ==
    [][\A d \in DeviceIds :
        /\ EpochOf(keys_db', d) >= EpochOf(keys_db, d)
        /\ DOMAIN keys_db' = DOMAIN keys_db
        /\ EpochOf(keys_db', d) # EpochOf(keys_db, d)
             => /\ RxStep
                /\ last'.verdict = "promoted"
                /\ last'.in.device = d
        /\ (RxStep /\ last'.verdict = "promoted" /\ last'.in.device = d)
             => EpochOf(keys_db', d) = EpochOf(keys_db, d) + 1
      ]_vars

\* C8 witness: dev1, stored without an epoch, has been promoted to epoch 1
\* while dev2 keeps epoch 3.
C8_Witness ==
    /\ last.op = "rx"
    /\ last.verdict = "promoted"
    /\ last.in.device = "dev1"
    /\ DOMAIN keys_db = DeviceIds
    /\ keys_db["dev1"] = [active_key |-> "B", next_key |-> None, epoch |-> 1]
    /\ keys_db["dev2"].epoch = 3

\* The conditions of C9 on a datagram, read before it is processed.
ValidBeacon(in) ==
    /\ in.kind = "beacon"
    /\ Abs(in.off) <= 120
    /\ in.device \in DOMAIN keys_db
    /\ \/ SignedWith(in, Get(keys_db[in.device], "active_key", None))
       \/ SignedWith(in, Get(keys_db[in.device], "next_key", None))

\* C9: a cache entry appears or changes only in a listener pass whose
\* datagram is of type pm-node, within 120 s, for a device of the Key
\* Database, and signed over its other fields with the device's active or
\* staged key, and it is the entry of the sender's address; a datagram that
\* fails one of the conditions leaves the cache as it is.
C9_OnlyValidBeacons ==
    [][/\ \A e \in Range(discovered_nodes') \ Range(discovered_nodes) :
            /\ RxStep
            /\ ValidBeacon(last'.in)
            /\ e.ip = last'.src
            /\ e.last_seen = now
       /\ (RxStep /\ ~ValidBeacon(last'.in))
            => discovered_nodes' = discovered_nodes
      ]_vars

\* C9 witness: a beacon signed with the active key refreshed, 24 s later,
\* the entry of its sender.
C9_Witness ==
    /\ last.op = "rx"
    /\ last.verdict = "active"
    /\ now = 24
    /\ Len(discovered_nodes) = 2
    /\ \E e \in Range(discovered_nodes) : e.ip = last.src /\ e.last_seen = 24
    /\ \E e \in Range(discovered_nodes) : e.last_seen = 0

\* C10 as claimed: 200 exactly when the command was delivered, 500 whenever
\* a well-formed request fails at a lookup, key or send step, 400 only for
\* a body that is malformed or lacks ip or cmd.
C10_CmdStatusAsClaimed ==
    last.op = "cmd" =>
        /\ last.status = 200 <=> last.send = "ok"
        /\ (WellFormed(last.body) /\ last.send # "ok") => last.status = 500
        /\ last.status = 400 => ~WellFormed(last.body)

\* The step is one POST /api/cmd: last' describes the request.
CmdStep == last'.op = "cmd" /\ now' = now

\* C11: a command is handed to the network only when the target ip has a
\* cache entry whose device_id has a record with an active key; it carries
\* cmd and ts, and its signature is the HMAC of exactly {cmd, ts} under that
\* active key, never under a staged key that differs from it; and when one
\* of the three lookups fails nothing is sent.
C11_CommandSignedWithActiveKey ==
    [][CmdStep =>
        LET targets == {e \in Range(discovered_nodes) :
                          /\ WellFormed(last'.body)
                          /\ e.ip = last'.body.ip
                          /\ "device_id" \in DOMAIN e.device
                          /\ e.device.device_id \in DOMAIN keys_db
                          /\ Truthy(Get(keys_db[e.device.device_id],
                                        "active_key", None))}
        IN  /\ "sent" \in DOMAIN last' <=> targets # {}
            /\ "sent" \in DOMAIN last' =>
                 \A e \in targets :
                   LET rec == keys_db[e.device.device_id]
                   IN  /\ last'.sent.cmd = last'.body.cmd
                       /\ last'.sent.ts = now
                       /\ last'.sent.sig =
                            [key |-> rec.active_key,
                             msg |-> << <<"cmd", last'.body.cmd>>,
                                        <<"ts", now>> >>]
                       /\ Get(rec, "next_key", None) # rec.active_key
                            => last'.sent.sig.key # Get(rec, "next_key", None)
      ]_vars

\* C11 witness: a command went out for a device that has both an active key
\* A and a staged key B, signed with A.
C11_Witness ==
    /\ last.op = "cmd"
    /\ "sent" \in DOMAIN last
    /\ last.sent.sig.key = "A"
    /\ last.send = "ok"
    /\ DOMAIN keys_db = {"dev1"}
    /\ keys_db["dev1"] = RecAB1
    /\ \E e \in Range(discovered_nodes) :
         e.ip = last.body.ip /\ e.device.device_id = "dev1"

\* C20: an operation of the collector that consults the cache never uses an
\* entry with now - last_seen > 25: the aggregation for GET /api/fleet
\* evicts such an entry and leaves it out of the response, and the lookup
\* of POST /api/cmd does not find its device in such an entry.
C20_NoStaleEntryUsed ==
    [][/\ FleetStep =>
            \A e \in Range(discovered_nodes) :
               (e.ip \notin StaticIps /\ now - e.last_seen > NODE_TIMEOUT)
                  => /\ e.ip \notin BodyIps(last'.body)
                     /\ e.ip \notin CacheIps(discovered_nodes')
       /\ CmdStep =>
            ("used_last_seen" \in DOMAIN last'
               => now - last'.used_last_seen <= NODE_TIMEOUT)
      ]_vars

(***************************************************************************)
(*                          pm-crash-capture.py                            *)
(***************************************************************************)
MaxRuns == 3

\* State at the first invocation: any of the three files may be there.
CrashInit ==
    /\ cc_pc = "idle"
    /\ marker \in BOOLEAN
    /\ log_dump_exists \in BOOLEAN
    /\ mark_script_exists \in BOOLEAN
    /\ marker_seen = "unread"
    /\ dump_calls = 0
    /\ runs = 0
    /\ cc_logged = {}

\* The scheduler starts a run: main() is entered.
CC_Start ==
    /\ cc_pc = "idle"
    /\ runs < MaxRuns
    /\ runs' = runs + 1
    /\ cc_pc' = "ensure"
    /\ marker_seen' = "unread"
    /\ dump_calls' = 0
    /\ cc_logged' = {}
    /\ UNCHANGED <<marker, log_dump_exists, mark_script_exists>>
    /\ UNCHANGED <<pmVars, collVars, toolVars>>

\* ensure_marker_helper(); installed: write_text and chmod both succeeded
ensure_marker_helper(installed) ==
    /\ cc_pc = "ensure"
    /\ IF mark_script_exists
       THEN UNCHANGED <<mark_script_exists, cc_logged>>
       ELSE /\ mark_script_exists' = installed
            /\ cc_logged' = cc_logged
                 \cup {"Installing pm-mark-clean-shutdown helper"}
                 \cup (IF installed THEN {}
                       ELSE {"Failed to install marker helper"})
    /\ cc_pc' = "check"
    /\ UNCHANGED <<marker, log_dump_exists, marker_seen, dump_calls, runs>>
    /\ UNCHANGED <<pmVars, collVars, toolVars>>

\* was_clean_shutdown, mutated: the previous shutdown always counts as unclean
M_was_clean_shutdown == FALSE

\* was_clean_shutdown()
was_clean_shutdown == marker

\* main(), lines 93-96: the check of the marker and the branch on it
CC_Check ==
    /\ cc_pc = "check"
    /\ marker_seen' = IF marker THEN "present" ELSE "absent"
    /\ IF was_clean_shutdown
       THEN /\ cc_logged' = cc_logged \cup {"Previous shutdown clean"}
            /\ cc_pc' = "clear"
       ELSE /\ cc_logged' = cc_logged
            /\ cc_pc' = "dump"
    /\ UNCHANGED <<marker, log_dump_exists, mark_script_exists, dump_calls,
                   runs>>
    /\ UNCHANGED <<pmVars, collVars, toolVars>>

\* dump_logs(); run_quiet swallows what the utility does
dump_logs ==
    /\ cc_pc = "dump"
    /\ IF ~log_dump_exists
       THEN /\ cc_logged' = cc_logged \cup {"pm-log-dump missing"}
            /\ dump_calls' = dump_calls
       ELSE /\ cc_logged' = cc_logged \cup {"UNCLEAN SHUTDOWN DETECTED"}
            /\ dump_calls' = dump_calls + 1
    /\ cc_pc' = "clear"
    /\ UNCHANGED <<marker, log_dump_exists, mark_script_exists, marker_seen,
                   runs>>
    /\ UNCHANGED <<pmVars, collVars, toolVars>>

\* clear_marker(): unlink(missing_ok=True); then main() returns
clear_marker ==
    /\ cc_pc = "clear"
    /\ marker' = FALSE
    /\ cc_pc' = "done"
    /\ UNCHANGED <<log_dump_exists, mark_script_exists, marker_seen,
                   dump_calls, runs, cc_logged>>
    /\ UNCHANGED <<pmVars, collVars, toolVars>>

\* The process exits; the system runs on until the next invocation.
CC_Exit ==
    /\ cc_pc = "done"
    /\ cc_pc' = "idle"
    /\ UNCHANGED <<marker, log_dump_exists, mark_script_exists, marker_seen,
                   dump_calls, runs, cc_logged>>
    /\ UNCHANGED <<pmVars, collVars, toolVars>>

\* Between runs the clean-shutdown hook runs the helper: touch MARKER.
CleanShutdownHook ==
    /\ cc_pc = "idle"
    /\ mark_script_exists
    /\ ~marker
    /\ marker' = TRUE
    /\ UNCHANGED <<cc_pc, log_dump_exists, mark_script_exists, marker_seen,
                   dump_calls, runs, cc_logged>>
    /\ UNCHANGED <<pmVars, collVars, toolVars>>

\* Between runs the log-dump utility is installed or removed.
LogDumpChanged ==
    /\ cc_pc = "idle"
    /\ log_dump_exists' = ~log_dump_exists
    /\ UNCHANGED <<cc_pc, marker, mark_script_exists, marker_seen,
                   dump_calls, runs, cc_logged>>
    /\ UNCHANGED <<pmVars, collVars, toolVars>>

InitCrash == CrashInit /\ PMIdle /\ CollIdle /\ ToolsIdle

NextCrash ==
    \/ CC_Start
    \/ \E installed \in BOOLEAN : ensure_marker_helper(installed)
    \/ CC_Check
    \/ dump_logs
    \/ clear_marker
    \/ CC_Exit
    \/ CleanShutdownHook
    \/ LogDumpChanged

SpecCrash == InitCrash /\ [][NextCrash]_vars

\* C7: when a run of crash capture has ended the marker is absent; the run
\* that found the marker did not invoke the log-dump utility; the run that
\* found no marker invoked it exactly once if it exists at its path and not
\* at all if it does not; no run invokes it more than once.
C7_CrashCapture ==
    /\ dump_calls <= 1
    /\ cc_pc = "done" =>
        /\ ~marker
        /\ marker_seen \in {"present", "absent"}
        /\ marker_seen = "present" => dump_calls = 0
        /\ marker_seen = "absent" =>
             dump_calls = IF log_dump_exists THEN 1 ELSE 0

\* C7 witness: a second run, after a shutdown that left no marker, has
\* ended with one log dump; the helper is in place.
C7_Witness ==
    /\ cc_pc = "done"
    /\ runs = 2
    /\ marker_seen = "absent"
    /\ dump_calls = 1
    /\ mark_script_exists
    /\ ~marker

(***************************************************************************)
(*                           pm-boot-health.py                             *)
(***************************************************************************)
\* flags & mask, for a mask of one bit
Bit(flags, mask) == (flags \div mask) % 2 = 1

\* The sum of the members of a set of numbers
RECURSIVE SetSum(_)
SetSum(S) == IF S = {} THEN 0
             ELSE LET x == CHOOSE y \in S : TRUE IN x + SetSum(S \ {x})

\* The bits the score looks at (0x1, 0x2, 0x4, 0x10000, 0x20000, 0x40000)
\* and two it does not (0x8 soft temperature limit, 0x80000).
ScoredBits == {1, 2, 4, 65536, 131072, 262144}
OtherBits == {8, 524288}

\* What get_throttled() can return: any combination of the scored bits,
\* alone or with the other bits set; 0 also stands for a failed tool.
FlagValues ==
    {SetSum(B) + o : B \in SUBSET ScoredBits, o \in {0, SetSum(OtherBits)}}

\* What get_temp() can return, in tenths of a degree: 0.0 (also a failed
\* tool), 79.9, 80.0, 80.1, 85.0.
TempValues == {0, 799, 800, 801, 850}

\* The scorer, about to run.
HealthInit ==
    /\ bh_pc = "flags"
    /\ bh_flags = 0
    /\ bh_temp = 0
    /\ health_file = <<>>
    /\ bh_logged = {}

healthFrame == <<pmVars, collVars, crashVars, hardenVars, roVars, alertVars,
                raceVars, moreVars>>

\* main(), line 102: flags = get_throttled()
get_throttled(value) ==
    /\ bh_pc = "flags"
    /\ bh_flags' = value
    /\ bh_pc' = "temp"
    /\ UNCHANGED <<bh_temp, health_file, bh_logged>>
    /\ UNCHANGED healthFrame

\* main(), line 103: temp = get_temp()
get_temp(value) ==
    /\ bh_pc = "temp"
    /\ bh_temp' = value
    /\ bh_pc' = "score"
    /\ UNCHANGED <<bh_flags, health_file, bh_logged>>
    /\ UNCHANGED healthFrame

\* line 91, mutated: a temperature of exactly 80 counts as high
M_HighTemp(temp) == temp >= 800

\* line 91: temp > 80
HighTemp(temp) == temp > 800

\* compute_score(flags, temp), lines 64-98
compute_score(flags, temp) ==
    LET s1 == IF Bit(flags, 1) THEN 100 - 25 ELSE 100
        i1 == IF Bit(flags, 1) THEN <<"undervoltage_now">> ELSE <<>>
        s2 == IF Bit(flags, 2) THEN s1 - 15 ELSE s1
        i2 == IF Bit(flags, 2) THEN Append(i1, "freq_capped") ELSE i1
        s3 == IF Bit(flags, 4) THEN s2 - 15 ELSE s2
        i3 == IF Bit(flags, 4) THEN Append(i2, "throttled") ELSE i2
        s4 == IF Bit(flags, 65536) THEN s3 - 10 ELSE s3
        i4 == IF Bit(flags, 65536) THEN Append(i3, "undervoltage_past") ELSE i3
        s5 == IF Bit(flags, 131072) THEN s4 - 5 ELSE s4
        i5 == IF Bit(flags, 131072) THEN Append(i4, "freq_capped_past") ELSE i4
        s6 == IF Bit(flags, 262144) THEN s5 - 5 ELSE s5
        i6 == IF Bit(flags, 262144) THEN Append(i5, "throttled_past") ELSE i5
        s7 == IF HighTemp(temp) THEN s6 - 20 ELSE s6
        i7 == IF HighTemp(temp) THEN Append(i6, "high_temp") ELSE i6
    IN  [score |-> Max(s7, 0), issues |-> i7]

\* main(), lines 105-123: score, write the Health Record, log
BH_Score ==
    /\ bh_pc = "score"
    /\ \E r \in {compute_score(bh_flags, bh_temp)} :
         /\ health_file' = [score |-> r.score,
                            temp_c |-> bh_temp,
                            throttled_flags |-> bh_flags,
                            issues |-> r.issues]
         /\ bh_logged' = {"Boot health score"}
              \cup (IF r.score < 70 THEN {"HEALTH WARNING"} ELSE {})
              \cup (IF r.score < 50 THEN {"HEALTH CRITICAL"} ELSE {})
    /\ bh_pc' = "done"
    /\ UNCHANGED <<bh_flags, bh_temp>>
    /\ UNCHANGED healthFrame

InitHealth ==
    /\ HealthInit
    /\ PMIdle /\ CollIdle /\ CrashIdle /\ HardenIdle /\ ROIdle /\ AlertIdle
    /\ RaceIdle /\ MoreIdle

NextHealth ==
    \/ \E value \in FlagValues : get_throttled(value)
    \/ \E value \in TempValues : get_temp(value)
    \/ BH_Score

SpecHealth == InitHealth /\ [][NextHealth]_vars

\* The table of section 4.2, in its order.
PenaltyTable ==
    << [mask |-> 1, penalty |-> 25, tag |-> "undervoltage_now"],
       [mask |-> 2, penalty |-> 15, tag |-> "freq_capped"],
       [mask |-> 4, penalty |-> 15, tag |-> "throttled"],
       [mask |-> 65536, penalty |-> 10, tag |-> "undervoltage_past"],
       [mask |-> 131072, penalty |-> 5, tag |-> "freq_capped_past"],
       [mask |-> 262144, penalty |-> 5, tag |-> "throttled_past"] >>

\* The rows of the table whose condition is present, lowest row first
RowsPresent(flags) == {i \in 1..Len(PenaltyTable) : Bit(flags, PenaltyTable[i].mask)}

\* The tags of a set of rows in the order of the table, from row i on
RECURSIVE TagsFrom(_, _)
TagsFrom(rows, i) ==
    IF i > Len(PenaltyTable) THEN <<>>
    ELSE (IF i \in rows THEN <<PenaltyTable[i].tag>> ELSE <<>>)
         \o TagsFrom(rows, i + 1)

RECURSIVE PenaltyFrom(_, _)
PenaltyFrom(rows, i) ==
    IF i > Len(PenaltyTable) THEN 0
    ELSE (IF i \in rows THEN PenaltyTable[i].penalty ELSE 0)
         + PenaltyFrom(rows, i + 1)

\* C12: the Health Record written for flags and temperature holds the score
\* 100 minus the penalties of the conditions present (20 more above 80.0
\* degrees, nothing at exactly 80.0), never below 0 nor above 100, and
\* the tags of exactly those conditions in the order of the table.
C12_ScoreTable ==
    bh_pc = "done" =>
        LET rows == RowsPresent(bh_flags)
            hot == bh_temp > 800
            total == PenaltyFrom(rows, 1) + (IF hot THEN 20 ELSE 0)
        IN  /\ health_file.score = (IF total > 100 THEN 0 ELSE 100 - total)
            /\ health_file.score \in 0..100
            /\ health_file.issues =
                 TagsFrom(rows, 1) \o (IF hot THEN <<"high_temp">> ELSE <<>>)
            /\ bh_temp = 800 => "high_temp" \notin Range(health_file.issues)

\* C12 witness: every condition of the table at exactly 80.0 degrees: the
\* six flag penalties and no temperature penalty.
C12_Witness ==
    /\ bh_pc = "done"
    /\ bh_temp = 800
    /\ RowsPresent(bh_flags) = 1..6
    /\ health_file.score = 25
    /\ Len(health_file.issues) = 6

(***************************************************************************)
(*                          pm-storage-harden.py                           *)
(***************************************************************************)
\* A string is the sequence of its characters.  "," and " " are themselves;
\* every other symbol stands for a run of characters without comma or
\* white space: "commit=" for that prefix, "30" for the digits after it.
Chars == {",", " ", "noatime", "errors=remount-ro", "commit=", "30", "rw"}

REQUIRED_FLAGS == << <<"noatime">>, <<"errors=remount-ro">> >>
COMMIT_VALUE == <<"commit=", "30">>

\* Bounds of the model.
MaxOptLen == 3        \* every options string up to this length is tried
MaxHardenRuns == 2    \* runs of the hardener in a row

\* opts.split(",")
RECURSIVE Split(_)
Split(str) ==
    IF str = <<>> THEN << <<>> >>
    ELSE LET rest == Split(Tail(str))
         IN  IF Head(str) = "," THEN << <<>> >> \o rest
             ELSE << <<Head(str)>> \o Head(rest) >> \o Tail(rest)

\* o.strip()
RECURSIVE LStrip(_)
LStrip(str) == IF str # <<>> /\ Head(str) = " " THEN LStrip(Tail(str)) ELSE str
RECURSIVE RStrip(_)
RStrip(str) == IF str # <<>> /\ str[Len(str)] = " "
               THEN RStrip(SubSeq(str, 1, Len(str) - 1)) ELSE str
Strip(str) == RStrip(LStrip(str))

\* line 63, mutated: only the bare token commit= is taken for a commit value
M_StartsWithCommit(p) == p = <<"commit=">>

\* p.startswith("commit=")
StartsWithCommit(p) == p # <<>> /\ p[1] = "commit="

\* ",".join(cleaned), mutated: the separator is a comma and a space
RECURSIVE M_Join(_)
M_Join(list) ==
    IF list = <<>> THEN <<>>
    ELSE IF Len(list) = 1 THEN list[1]
    ELSE list[1] \o <<",", " ">> \o M_Join(Tail(list))

\* ",".join(cleaned)
RECURSIVE Join(_)
Join(list) ==
    IF list = <<>> THEN <<>>
    ELSE IF Len(list) = 1 THEN list[1]
    ELSE list[1] \o <<",">> \o Join(Tail(list))

Members(list) == {list[i] : i \in 1..Len(list)}

\* lines 65-67: for flag in REQUIRED_FLAGS: append when not in parts
RECURSIVE EnsureFlags(_, _)
EnsureFlags(parts, i) ==
    IF i > Len(REQUIRED_FLAGS) THEN parts
    ELSE EnsureFlags(IF REQUIRED_FLAGS[i] \in Members(parts) THEN parts
                     ELSE Append(parts, REQUIRED_FLAGS[i]), i + 1)

\* lines 73-78: the first occurrence of every part, in order
RECURSIVE Dedup(_, _)
Dedup(parts, seen) ==
    IF parts = <<>> THEN <<>>
    ELSE IF Head(parts) \in seen THEN Dedup(Tail(parts), seen)
    ELSE <<Head(parts)>> \o Dedup(Tail(parts), seen \cup {Head(parts)})

\* normalize_opts(opts), lines 59-81
normalize_opts(opts) ==
    LET pieces == Split(opts)
        stripped == [i \in 1..Len(pieces) |-> Strip(pieces[i])]
        parts == SelectSeq(stripped, LAMBDA o : o # <<>>)
        kept == SelectSeq(parts, LAMBDA q : ~StartsWithCommit(q))
        flagged == EnsureFlags(kept, 1)
        all == Append(flagged, COMMIT_VALUE)
    IN  Join(Dedup(all, {}))

\* All strings over Chars of length n
RECURSIVE StringsOfLen(_)
StringsOfLen(n) ==
    IF n = 0 THEN {<<>>}
    ELSE {<<c>> \o t : c \in Chars, t \in StringsOfLen(n - 1)}

\* The hardened options, as the hardener itself writes them
Hardened == <<"noatime", ",", "errors=remount-ro", ",", "commit=", "30">>

\* Options strings that hold the hardened options with other text before
\* and after them.
AroundHardened ==
    {pre \o Hardened \o post :
        pre \in {<<>>, <<"rw", ",">>, <<"rw", ",", "rw", ",">>, <<" ">>,
                 <<"commit=", "rw", ",">>, <<"noatime", ",">>, <<",">>},
        post \in {<<>>, <<",", "rw">>, <<",">>, <<" ">>, <<"rw">>,
                  <<",", "noatime">>}}

\* The options field of the root row when the hardener first runs.
OptStrings ==
    UNION {StringsOfLen(n) : n \in 0..MaxOptLen} \cup AroundHardened

\* A line of fstab: a comment, the row of another mount point, a row that
\* names / with fewer than four fields, or the row of / with its options;
\* tabbed: its fields are separated by single tabs.
CommentLine == [kind |-> "comment"]
BootRow == [kind |-> "row", mount |-> "/boot", opts |-> <<"rw">>,
            tabbed |-> FALSE]
ShortRootRow == [kind |-> "short"]
RootRow(opts, tabbed) ==
    [kind |-> "row", mount |-> "/", opts |-> opts, tabbed |-> tabbed]

\* line 119: root_pattern.search(line), and line 122: at least four fields
IsRootRow(line) == line.kind = "row" /\ line.mount = "/"

\* lines 110-137: the line that goes to new_lines for a line of fstab
NewLine(line) ==
    IF IsRootRow(line)
    THEN RootRow(normalize_opts(line.opts), TRUE)
    ELSE line

\* lines 129-133: some root row's options are not what normalize_opts gives
Modified(lines) ==
    \E i \in 1..Len(lines) :
        IsRootRow(lines[i]) /\ normalize_opts(lines[i].opts) # lines[i].opts

\* The hardener, about to run for the first time.
HardenInit ==
    /\ sh_pc = "detect"
    /\ sh_runs = 1
    /\ sh_rc = "none"
    /\ \E opts \in OptStrings :
         fstab \in { <<CommentLine, BootRow, RootRow(opts, FALSE)>>,
                     <<RootRow(opts, TRUE), ShortRootRow>>,
                     <<RootRow(opts, FALSE), RootRow(Hardened, FALSE)>> }
    /\ sh_backups = 0
    /\ sh_writes = 0

hardenFrame == <<pmVars, collVars, crashVars, healthVars, roVars, alertVars,
                raceVars, moreVars>>

\* main(), lines 91-104: findmnt fails, or names the root filesystem
SH_Detect(root_fs) ==
    /\ sh_pc = "detect"
    /\ IF root_fs = "fail" THEN sh_rc' = "1" /\ sh_pc' = "done"
       ELSE IF root_fs # "ext4" THEN sh_rc' = "0" /\ sh_pc' = "done"
       ELSE sh_rc' = sh_rc /\ sh_pc' = "fstab"
    /\ UNCHANGED <<sh_runs, fstab, sh_backups, sh_writes>>
    /\ UNCHANGED hardenFrame

\* main(), lines 106-150; writable: /etc can be written (copy2 and
\* write_text raise when it cannot, and main() does not catch)
SH_Rewrite(writable) ==
    /\ sh_pc = "fstab"
    /\ sh_pc' = "done"
    /\ IF fstab = <<>>
       THEN sh_rc' = "1" /\ UNCHANGED <<fstab, sh_backups, sh_writes>>
       ELSE IF ~writable
       THEN sh_rc' = "exception" /\ UNCHANGED <<fstab, sh_backups, sh_writes>>
       ELSE /\ sh_backups' = sh_backups + 1
            /\ IF Modified(fstab)
               THEN /\ fstab' = [i \in 1..Len(fstab) |-> NewLine(fstab[i])]
                    /\ sh_writes' = sh_writes + 1
               ELSE UNCHANGED <<fstab, sh_writes>>
            /\ sh_rc' = "0"
    /\ UNCHANGED sh_runs
    /\ UNCHANGED hardenFrame

\* The hardener is run again.
SH_Rerun ==
    /\ sh_pc = "done"
    /\ sh_runs < MaxHardenRuns
    /\ sh_runs' = sh_runs + 1
    /\ sh_pc' = "detect"
    /\ sh_rc' = "none"
    /\ UNCHANGED <<fstab, sh_backups, sh_writes>>
    /\ UNCHANGED hardenFrame

\* The mount table is removed between runs.
FstabRemoved ==
    /\ sh_pc = "done"
    /\ fstab # <<>>
    /\ fstab' = <<>>
    /\ UNCHANGED <<sh_pc, sh_runs, sh_rc, sh_backups, sh_writes>>
    /\ UNCHANGED hardenFrame

InitHarden ==
    /\ HardenInit
    /\ PMIdle /\ CollIdle /\ CrashIdle /\ HealthIdle /\ ROIdle /\ AlertIdle
    /\ RaceIdle /\ MoreIdle

NextHarden ==
    \/ \E root_fs \in {"fail", "ext4", "vfat"} : SH_Detect(root_fs)
    \/ \E writable \in BOOLEAN : SH_Rewrite(writable)
    \/ SH_Rerun
    \/ FstabRemoved

SpecHarden == InitHarden /\ [][NextHarden]_vars

\* A step in which main() gets to the mount table.
RewriteStep == sh_pc = "fstab" /\ sh_pc' = "done"

\* The options of the row are not what normalization makes of them.
OptionsDiffer(line) ==
    IsRootRow(line) /\ normalize_opts(line.opts) # line.opts

\* C29: when the hardener rewrites the mount table, the only lines that
\* differ from the original are rows of / whose normalized options differ
\* from their old options; every other line (comments, rows of other mount
\* points, root rows whose options are already normalized) is written back
\* byte for byte; when no row's options change the table is not written.
C29_OnlyChangedRow ==
    [][RewriteStep =>
        /\ Len(fstab') = Len(fstab)
        /\ \A i \in 1..Len(fstab) :
               fstab'[i] # fstab[i] => OptionsDiffer(fstab[i])
        /\ (\A i \in 1..Len(fstab) : ~OptionsDiffer(fstab[i])) =>
               /\ sh_writes' = sh_writes
               /\ fstab' = fstab
      ]_vars

\* The options strings of the root rows of the mount table
RootOpts == {fstab[i].opts : i \in {j \in 1..Len(fstab) : IsRootRow(fstab[j])}}

\* The comma-separated tokens of a string, as they are written
TokensOf(str) == Split(str)

\* C13: for the options string of the root row, before any run and after
\* each, normalizing twice gives what normalizing once gives; the result
\* holds noatime and errors=remount-ro, one commit= token, which is
\* commit=30, and no token twice; and a run after a run that rewrote the
\* table finds nothing to rewrite.
C13_NormalizeIdempotent ==
    /\ \A str \in RootOpts :
         LET once == normalize_opts(str)
             toks == TokensOf(once)
         IN  /\ normalize_opts(once) = once
             /\ <<"noatime">> \in Members(toks)
             /\ <<"errors=remount-ro">> \in Members(toks)
             /\ {i \in 1..Len(toks) : toks[i] # <<>> /\ toks[i][1] = "commit="}
                  = {Len(toks)}
             /\ toks[Len(toks)] = <<"commit=", "30">>
             /\ \A i, j \in 1..Len(toks) : toks[i] = toks[j] => i = j
    /\ sh_writes <= 1
    /\ sh_writes = 1 => \A str \in RootOpts : normalize_opts(str) = str

\* C13 witness: a second run has ended without a write after the first run
\* rewrote the options.
C13_Witness ==
    /\ sh_pc = "done"
    /\ sh_runs = 2
    /\ sh_rc = "0"
    /\ sh_writes = 1
    /\ sh_backups = 2
    /\ \E str \in RootOpts : Len(TokensOf(str)) = 4

\* C14 as claimed: an options string that holds
\* noatime,errors=remount-ro,commit=30 with any options before or after it
\* is what normalize_opts returns for it.
ContainsHardened(str) ==
    \E i \in 0..(Len(str) - Len(Hardened)) :
        SubSeq(str, i + 1, i + Len(Hardened)) = Hardened

C14_HardenedUnchanged ==
    sh_pc = "fstab" =>
        \A str \in RootOpts :
            ContainsHardened(str) => normalize_opts(str) = str

\* The string is in the form the hardener writes: its tokens are not empty,
\* carry no white space at either end, are all different, noatime and
\* errors=remount-ro are among them, and the last token, and no other, is
\* a commit= token: commit=30.
InWrittenForm(str) ==
    LET toks == TokensOf(str)
    IN  /\ \A i \in 1..Len(toks) :
             /\ toks[i] # <<>>
             /\ toks[i][1] # " "
             /\ toks[i][Len(toks[i])] # " "
             /\ toks[i][1] = "commit=" <=> i = Len(toks)
        /\ \A i, j \in 1..Len(toks) : toks[i] = toks[j] => i = j
        /\ <<"noatime">> \in Members(toks)
        /\ <<"errors=remount-ro">> \in Members(toks)
        /\ toks[Len(toks)] = <<"commit=", "30">>

\* C14 amended: an options string in the written form (distinct trimmed
\* tokens, both flags, commit=30 as its last and only commit= token) is
\* returned unchanged by normalize_opts, whatever other options precede or
\* separate the required ones.
C14_WrittenFormUnchanged ==
    \A str \in RootOpts : InWrittenForm(str) => normalize_opts(str) = str

\* C14 witness: the first run has ended on rw,noatime,errors=remount-ro,
\* commit=30 and wrote nothing.
C14_Witness ==
    /\ sh_pc = "done"
    /\ sh_runs = 1
    /\ sh_rc = "0"
    /\ sh_backups = 1
    /\ sh_writes = 0
    /\ RootOpts = {<<"rw", ",">> \o Hardened}

(***************************************************************************)
(*                          pm-enable-ro-root.py                           *)
(***************************************************************************)
\* The text of cmdline.txt is a sequence of symbols: " " and "\n" are white
\* space, every other symbol is a run of characters without white space.
CmdlineSymbols == {" ", "\n", "ro", "root=/dev/sda1", "quiet", "micro"}
\* The runs that begin with the letters ro, and those that end with them
BeginsWithRo == {"ro", "root=/dev/sda1"}
EndsWithRo == {"ro", "micro"}

\* Bounds of the model.
MaxCmdlineLen == 3    \* every cmdline text up to this length is tried
MaxInstallRuns == 2   \* runs of the installer in a row

RECURSIVE CmdlineTexts(_)
CmdlineTexts(n) ==
    IF n = 0 THEN {<<>>}
    ELSE CmdlineTexts(n - 1)
         \cup {Append(t, c) : c \in CmdlineSymbols,
                              t \in {u \in CmdlineTexts(n - 1) : Len(u) = n - 1}}

\* CMDLINE.read_text().strip()
RECURSIVE StripText(_)
StripText(text) ==
    IF text # <<>> /\ Head(text) \in {" ", "\n"} THEN StripText(Tail(text))
    ELSE IF text # <<>> /\ text[Len(text)] \in {" ", "\n"}
    THEN StripText(SubSeq(text, 1, Len(text) - 1))
    ELSE text

\* line 101, mutated: ro counts only as a word between two spaces
M_HasRo(content) ==
    \E i \in 1..(Len(content) - 2) :
        content[i] = " " /\ content[i + 1] = "ro" /\ content[i + 2] = " "

\* line 101: " ro" in content or content.endswith("ro")
HasRo(content) ==
    \/ \E i \in 1..(Len(content) - 1) :
          content[i] = " " /\ content[i + 1] \in BeginsWithRo
    \/ content # <<>> /\ content[Len(content)] \in EndsWithRo

\* TMPFS_LINES, lines 33-37, as rows of the mount table
TmpfsRow(mp, size) ==
    [kind |-> "row", mount |-> mp,
     opts |-> <<"defaults", ",", "nosuid", ",", "nodev", ",", size>>,
     tabbed |-> FALSE]
TMPFS_LINES ==
    << TmpfsRow("/tmp", "size=100m"),
       TmpfsRow("/var/tmp", "size=50m"),
       TmpfsRow("/var/log", "size=100m") >>

\* lines 126-130: a line that is not a comment and whose second field is mp
HasMount(lines, mp) ==
    \E i \in 1..Len(lines) : lines[i].kind = "row" /\ lines[i].mount = mp

\* lines 123-135: the lines after the loop over TMPFS_LINES
RECURSIVE AddOverlays(_, _)
AddOverlays(lines, i) ==
    IF i > Len(TMPFS_LINES) THEN lines
    ELSE AddOverlays(IF HasMount(lines, TMPFS_LINES[i].mount) THEN lines
                     ELSE Append(lines, TMPFS_LINES[i]), i + 1)

\* JOURNAL_BLOCK, lines 39-47
JOURNAL_BLOCK ==
    <<"[Journal]", "\n", "Storage=volatile", "\n", "RuntimeMaxUse=64M", "\n",
      "RuntimeKeepFree=16M", "\n", "SystemMaxUse=0", "\n",
      "ForwardToSyslog=no", "\n", "Compress=yes", "\n", "Seal=no", "\n">>

\* line 183: "Storage=volatile" in content; a commented-out setting holds
\* the text too
HasVolatile(content) ==
    \E i \in 1..Len(content) :
        content[i] \in {"Storage=volatile", "#Storage=volatile"}

\* journald.conf as found: missing, the distribution's default, a
\* commented-out setting, or already the block
JournaldFiles ==
    { [exists |-> FALSE, text |-> <<>>],
      [exists |-> TRUE, text |-> <<"[Journal]", "\n", "#Storage=auto", "\n">>],
      [exists |-> TRUE, text |-> <<"[Journal]", "\n", "#Storage=volatile", "\n">>],
      [exists |-> TRUE, text |-> JOURNAL_BLOCK] }

\* The mount table as found: missing, without overlays, with one, with all
FstabFiles ==
    { <<>>,
      <<CommentLine, RootRow(<<"rw">>, FALSE)>>,
      <<RootRow(Hardened, TRUE), TMPFS_LINES[2], ShortRootRow>>,
      <<RootRow(<<"rw">>, FALSE)>> \o TMPFS_LINES }

\* The installer, about to run for the first time; the other programs are
\* not running, the files it shares with them are as found.
ROInit ==
    /\ ro_pc = "cmdline"
    /\ ro_runs = 1
    /\ ro_rc = "none"
    /\ cmdline \in {[exists |-> FALSE, text |-> <<>>]}
                   \cup {[exists |-> TRUE, text |-> t] :
                            t \in CmdlineTexts(MaxCmdlineLen)}
    /\ journald \in JournaldFiles
    /\ \E found \in BOOLEAN :
         /\ rw_helper_exists = found
         /\ ro_helper_exists = found
         /\ log_dump_exists = found
    /\ fstab \in FstabFiles
    /\ ro_writes = [f \in ConfigFiles |-> 0]
    /\ ro_backups = [f \in ConfigFiles |-> 0]
    /\ ro_cmds = <<>>
    /\ ro_logged = {}

\* What the installer never touches: the other programs, and their state
\* apart from FSTAB and LOG_DUMP.
roFrame == <<pmVars, collVars, healthVars, alertVars, raceVars, moreVars,
             cc_pc, marker, mark_script_exists, marker_seen, dump_calls,
             runs, cc_logged,
             sh_pc, sh_runs, sh_rc, sh_backups, sh_writes>>

\* ensure_cmdline_ro(), lines 94-108
ensure_cmdline_ro ==
    /\ ro_pc = "cmdline"
    /\ ro_pc' = "fstab"
    /\ IF ~cmdline.exists
       THEN /\ ro_logged' = ro_logged \cup {"cmdline.txt not found"}
            /\ UNCHANGED <<cmdline, ro_writes, ro_backups>>
       ELSE IF HasRo(StripText(cmdline.text))
       THEN /\ ro_logged' = ro_logged \cup {"cmdline already contains ro"}
            /\ UNCHANGED <<cmdline, ro_writes, ro_backups>>
       ELSE /\ ro_logged' = ro_logged \cup {"cmdline updated"}
            /\ ro_backups' = [ro_backups EXCEPT !["cmdline"] = @ + 1]
            /\ cmdline' = [cmdline EXCEPT
                             !.text = StripText(@) \o <<" ", "ro", "\n">>]
            /\ ro_writes' = [ro_writes EXCEPT !["cmdline"] = @ + 1]
    /\ UNCHANGED <<ro_runs, ro_rc, journald, rw_helper_exists,
                   ro_helper_exists, ro_cmds, fstab, log_dump_exists>>
    /\ UNCHANGED roFrame

\* ensure_tmpfs_overlays(), lines 115-142
ensure_tmpfs_overlays ==
    /\ ro_pc = "fstab"
    /\ ro_pc' = "helpers"
    /\ IF fstab = <<>>
       THEN /\ ro_logged' = ro_logged \cup {"fstab missing"}
            /\ UNCHANGED <<fstab, ro_writes, ro_backups>>
       ELSE IF AddOverlays(fstab, 1) = fstab
       THEN /\ ro_logged' = ro_logged
                 \cup {"fstab already contains tmpfs overlays"}
            /\ UNCHANGED <<fstab, ro_writes, ro_backups>>
       ELSE /\ ro_logged' = ro_logged \cup {"fstab updated"}
            /\ ro_backups' = [ro_backups EXCEPT !["fstab"] = @ + 1]
            /\ fstab' = AddOverlays(fstab, 1)
            /\ ro_writes' = [ro_writes EXCEPT !["fstab"] = @ + 1]
    /\ UNCHANGED <<ro_runs, ro_rc, cmdline, journald, rw_helper_exists,
                   ro_helper_exists, ro_cmds, log_dump_exists>>
    /\ UNCHANGED roFrame

\* install_helpers(), lines 149-169
install_helpers ==
    /\ ro_pc = "helpers"
    /\ ro_pc' = "journald"
    /\ rw_helper_exists' = TRUE
    /\ ro_helper_exists' = TRUE
    /\ ro_logged' = ro_logged
         \cup (IF rw_helper_exists THEN {"rw-root already exists"}
               ELSE {"Installing rw-root"})
         \cup (IF ro_helper_exists THEN {"ro-root already exists"}
               ELSE {"Installing ro-root"})
    /\ UNCHANGED <<ro_runs, ro_rc, cmdline, journald, ro_writes, ro_backups,
                   ro_cmds, fstab, log_dump_exists>>
    /\ UNCHANGED roFrame

\* ensure_journald_config(), lines 176-192
ensure_journald_config ==
    /\ ro_pc = "journald"
    /\ ro_pc' = "logdump"
    /\ IF ~journald.exists
       THEN /\ ro_logged' = ro_logged \cup {"journald.conf missing"}
            /\ UNCHANGED <<journald, ro_writes, ro_backups, ro_cmds>>
       ELSE IF HasVolatile(journald.text)
       THEN /\ ro_logged' = ro_logged \cup {"journald already configured"}
            /\ UNCHANGED <<journald, ro_writes, ro_backups, ro_cmds>>
       ELSE /\ ro_logged' = ro_logged \cup {"journald configured"}
            /\ ro_backups' = [ro_backups EXCEPT !["journald"] = @ + 1]
            /\ journald' = [journald EXCEPT !.text = JOURNAL_BLOCK]
            /\ ro_writes' = [ro_writes EXCEPT !["journald"] = @ + 1]
            /\ ro_cmds' = ro_cmds \o <<"systemctl restart systemd-journald",
                                       "journalctl --disk-usage">>
    /\ UNCHANGED <<ro_runs, ro_rc, cmdline, rw_helper_exists,
                   ro_helper_exists, fstab, log_dump_exists>>
    /\ UNCHANGED roFrame

\* ensure_log_dump(), lines 199-209
ensure_log_dump ==
    /\ ro_pc = "logdump"
    /\ ro_pc' = "selftest"
    /\ log_dump_exists' = TRUE
    /\ IF log_dump_exists
       THEN /\ ro_logged' = ro_logged \cup {"pm-log-dump already exists"}
            /\ ro_cmds' = ro_cmds
       ELSE /\ ro_logged' = ro_logged \cup {"Installing pm-log-dump"}
            /\ ro_cmds' = Append(ro_cmds, "pm-log-dump")
    /\ UNCHANGED <<ro_runs, ro_rc, cmdline, journald, rw_helper_exists,
                   ro_helper_exists, ro_writes, ro_backups, fstab>>
    /\ UNCHANGED roFrame

\* self_test_helpers(), lines 216-226, and main(), lines 243-246
self_test_helpers ==
    /\ ro_pc = "selftest"
    /\ ro_pc' = "done"
    /\ ro_cmds' = ro_cmds
         \o (IF rw_helper_exists THEN <<"rw-root">> ELSE <<>>)
         \o (IF ro_helper_exists THEN <<"ro-root">> ELSE <<>>)
    /\ ro_logged' = ro_logged \cup {"RO root + logging setup complete"}
    /\ ro_rc' = "0"
    /\ UNCHANGED <<ro_runs, cmdline, journald, rw_helper_exists,
                   ro_helper_exists, ro_writes, ro_backups, fstab,
                   log_dump_exists>>
    /\ UNCHANGED roFrame

\* The installer is run again, right after the run before.
RO_Rerun ==
    /\ ro_pc = "done"
    /\ ro_runs < MaxInstallRuns
    /\ ro_runs' = ro_runs + 1
    /\ ro_pc' = "cmdline"
    /\ ro_rc' = "none"
    /\ ro_writes' = [f \in ConfigFiles |-> 0]
    /\ ro_backups' = [f \in ConfigFiles |-> 0]
    /\ ro_cmds' = <<>>
    /\ ro_logged' = {}
    /\ UNCHANGED <<cmdline, journald, rw_helper_exists, ro_helper_exists,
                   fstab, log_dump_exists>>
    /\ UNCHANGED roFrame

InitRO ==
    /\ ROInit
    /\ PMIdle /\ CollIdle /\ HealthIdle /\ AlertIdle /\ RaceIdle /\ MoreIdle
    /\ cc_pc = "off" /\ marker = FALSE /\ mark_script_exists = FALSE
    /\ marker_seen = "unread" /\ dump_calls = 0 /\ runs = 0 /\ cc_logged = {}
    /\ sh_pc = "off" /\ sh_runs = 0 /\ sh_rc = "none"
    /\ sh_backups = 0 /\ sh_writes = 0

NextRO ==
    \/ ensure_cmdline_ro
    \/ ensure_tmpfs_overlays
    \/ install_helpers
    \/ ensure_journald_config
    \/ ensure_log_dump
    \/ self_test_helpers
    \/ RO_Rerun

SpecRO == InitRO /\ [][NextRO]_vars

(***************************************************************************)
(* The installer on a host where a file cannot be written (a read-only or  *)
(* full file system, a missing directory): shutil.copy2 in backup_file     *)
(* (line 74), write_text (lines 107, 139, 167, 189, 205) and os.chmod      *)
(* (lines 168, 206) raise OSError, and no caller has a try around them.    *)
(***************************************************************************)

\* The step main() is at copies or writes a file.
WritesFile ==
    \/ ro_pc = "cmdline" /\ cmdline.exists /\ ~HasRo(StripText(cmdline.text))
    \/ ro_pc = "fstab" /\ fstab # <<>> /\ AddOverlays(fstab, 1) # fstab
    \/ ro_pc = "helpers" /\ (~rw_helper_exists \/ ~ro_helper_exists)
    \/ ro_pc = "journald" /\ journald.exists /\ ~HasVolatile(journald.text)
    \/ ro_pc = "logdump" /\ ~log_dump_exists

\* The copy or the write raises: the exception leaves main() and the
\* interpreter ends the run with a traceback.
RO_WriteFails ==
    /\ WritesFile
    /\ ro_pc' = "done"
    /\ ro_rc' = "exception"
    /\ ro_logged' = ro_logged \cup {"Traceback"}
    /\ UNCHANGED <<ro_runs, cmdline, journald, rw_helper_exists,
                   ro_helper_exists, ro_writes, ro_backups, ro_cmds, fstab,
                   log_dump_exists>>
    /\ UNCHANGED roFrame

NextROFail == NextRO \/ RO_WriteFails

SpecROFail == InitRO /\ [][NextROFail]_vars

\* C30: the installer has no hard failure path: whichever step fails (boot
\* parameter file absent, a backup copy failing, a helper script or the
\* log-dump utility not writable, an external command failing), the run
\* goes on through the remaining steps to its closing message and
\* returns 0.
C30_NoHardFailure ==
    ro_pc = "done" =>
        /\ ro_rc = "0"
        /\ "RO root + logging setup complete" \in ro_logged

\* C15: in a run of the installer that directly follows a run, from whatever
\* cmdline.txt, fstab and journald.conf the first run found, none of the
\* three files is written or backed up, each file that exists is found
\* already configured, and every run that has ended returned 0.
C15_SecondRunWritesNothing ==
    /\ ro_runs >= 2 =>
         /\ \A f \in ConfigFiles : ro_writes[f] = 0 /\ ro_backups[f] = 0
         /\ ro_pc = "done" =>
              /\ cmdline.exists => "cmdline already contains ro" \in ro_logged
              /\ fstab # <<>> =>
                   "fstab already contains tmpfs overlays" \in ro_logged
              /\ journald.exists => "journald already configured" \in ro_logged
    /\ ro_pc = "done" => ro_rc = "0"

\* C15 witness: the first run changed all three files, the second has
\* ended and changed none.
C15_Witness ==
    /\ ro_pc = "done"
    /\ ro_runs = 2
    /\ ro_rc = "0"
    /\ cmdline.text = <<"quiet", " ", "ro", "\n">>
    /\ journald.text = JOURNAL_BLOCK
    /\ Len(fstab) = 5
    /\ \A f \in ConfigFiles : ro_writes[f] = 0

(***************************************************************************)
(*                          pm-alert-engine.py                             *)
(***************************************************************************)
\* json.loads of a file that holds {}
EmptyDoc == [k \in {} |-> None]

\* The mail configurations tried: the file missing, not JSON, an empty
\* object, a relay without TLS or login, a relay with both.
PlainConfig ==
    [from |-> "pi@example.org", to |-> "ops@example.org",
     smtp |-> "relay", port |-> 25]
AuthConfig ==
    [from |-> "pi@example.org", to |-> "ops@example.org",
     smtp |-> "relay", port |-> 587, tls |-> TRUE,
     user |-> "pi", pass |-> "secret"]
ConfigFileStates ==
    { [state |-> "missing"], [state |-> "unparsable"] }
    \cup { [state |-> "json", doc |-> d] :
             d \in {EmptyDoc, PlainConfig, AuthConfig} }

\* The scores around the threshold of line 42
Scores == {0, 49, 50, 51, 100}

\* The status documents tried: the file missing, not JSON, without
\* boot_health, with a boot_health that has no score, with a score.
StatusDocs ==
    { EmptyDoc, [boot_health |-> EmptyDoc] }
    \cup { [boot_health |-> [score |-> n]] : n \in Scores }
StatusFileStates ==
    { [state |-> "missing"], [state |-> "unparsable"] }
    \cup { [state |-> "json", doc |-> d] : d \in StatusDocs }

\* What can refuse in a mail transaction, "none" when nothing does
Refusals == {"none", "connect", "starttls", "login", "send_message"}

\* State when main() is entered
AlertInit ==
    /\ ae_pc = "load"
    /\ config_file \in ConfigFileStates
    /\ status_file \in StatusFileStates
    /\ ae_cfg = <<>>
    /\ ae_status = <<>>
    /\ relay \in Refusals
    /\ smtp = <<>>
    /\ mails = <<>>
    /\ ae_rc = "none"

alertFrame == <<pmVars, collVars, crashVars, healthVars, hardenVars, roVars,
               raceVars, moreVars>>

\* load(path), lines 15-18, when json.loads accepts the text
load(file) == IF file.state = "missing" THEN EmptyDoc ELSE file.doc

\* main(), lines 37-38; json.loads raises on a file that is not JSON and
\* nothing catches it
AE_Load ==
    /\ ae_pc = "load"
    /\ IF "unparsable" \in {config_file.state, status_file.state}
       THEN /\ ae_pc' = "done"
            /\ ae_rc' = "exception"
            /\ UNCHANGED <<ae_cfg, ae_status>>
       ELSE /\ ae_pc' = "score"
            /\ ae_cfg' = load(config_file)
            /\ ae_status' = load(status_file)
            /\ UNCHANGED ae_rc
    /\ UNCHANGED <<config_file, status_file, relay, smtp, mails>>
    /\ UNCHANGED alertFrame

\* line 40: status.get("boot_health", {}).get("score", 100)
ScoreOf(status) == Get(Get(status, "boot_health", EmptyDoc), "score", 100)

\* line 42, mutated: a score of 50 alerts too
M_BelowThreshold(score) == score <= 50

\* line 42: score < 50
BelowThreshold(score) == score < 50

\* main(), lines 40-42
AE_Check ==
    /\ ae_pc = "score"
    /\ IF BelowThreshold(ScoreOf(ae_status))
       THEN ae_pc' = "send_mail" /\ UNCHANGED ae_rc
       ELSE ae_pc' = "done" /\ ae_rc' = "0"
    /\ UNCHANGED <<config_file, status_file, ae_cfg, ae_status, relay, smtp,
                   mails>>
    /\ UNCHANGED alertFrame

\* send_mail, lines 28-33: the calls made on the relay, in order
SmtpCalls(cfg) ==
    <<"connect">>
    \o (IF Get(cfg, "tls", FALSE) = TRUE THEN <<"starttls">> ELSE <<>>)
    \o (IF Truthy(Get(cfg, "user", None)) THEN <<"login">> ELSE <<>>)
    \o <<"send_message">>

\* The relay takes every call of the transaction
Accepts(calls, refused) == \A i \in 1..Len(calls) : calls[i] # refused

\* The calls made when the relay refuses one: those up to the refused call
CallsUntil(calls, refused) ==
    IF Accepts(calls, refused)
    THEN calls
    ELSE SubSeq(calls, 1, CHOOSE i \in 1..Len(calls) : calls[i] = refused)

\* cfg["from"], cfg["to"], cfg["smtp"], cfg["port"] of lines 24-28 are there
HasMailKeys(cfg) == {"from", "to", "smtp", "port"} \subseteq DOMAIN cfg

\* send_mail(cfg, subject, body), lines 21-33, called at lines 43-47.
\* A key that is not in cfg raises KeyError and a call the relay refuses
\* raises an smtplib or socket error; main() catches neither.
send_mail ==
    /\ ae_pc = "send_mail"
    /\ ae_pc' = "done"
    /\ IF ~ HasMailKeys(ae_cfg)
       THEN /\ ae_rc' = "exception"
            /\ UNCHANGED <<smtp, mails>>
       ELSE /\ smtp' = CallsUntil(SmtpCalls(ae_cfg), relay)
            /\ IF Accepts(SmtpCalls(ae_cfg), relay)
               THEN /\ mails' = Append(mails,
                                   [Subject |-> "Pi health critical",
                                    From |-> ae_cfg["from"],
                                    To |-> ae_cfg["to"],
                                    score |-> ScoreOf(ae_status)])
                    /\ ae_rc' = "0"
               ELSE /\ ae_rc' = "exception"
                    /\ UNCHANGED mails
    /\ UNCHANGED <<config_file, status_file, ae_cfg, ae_status, relay>>
    /\ UNCHANGED alertFrame

InitAlert ==
    /\ AlertInit
    /\ PMIdle /\ CollIdle /\ CrashIdle /\ HealthIdle /\ HardenIdle /\ ROIdle
    /\ RaceIdle /\ MoreIdle

NextAlert ==
    \/ AE_Load
    \/ AE_Check
    \/ send_mail

SpecAlert == InitAlert /\ [][NextAlert]_vars

\* The status file holds a document whose boot_health.score is below 50
ScoreIsLow ==
    /\ status_file.state = "json"
    /\ "boot_health" \in DOMAIN status_file.doc
    /\ "score" \in DOMAIN status_file.doc["boot_health"]
    /\ status_file.doc["boot_health"]["score"] < 50

\* The mail setup works: the configuration is a JSON object that names from,
\* to, smtp and port, and the relay takes the transaction it asks for
MailWorks ==
    /\ config_file.state = "json"
    /\ HasMailKeys(config_file.doc)
    /\ Accepts(SmtpCalls(config_file.doc), relay)

\* C16: a run of the alert engine that has ended sent exactly one email,
\* which reports the score, if the status document's boot_health.score is
\* below 50 (49 sends one) and the mail setup works; it sent none if the
\* score is 50 or more, if the score is absent, or if the status file is
\* missing.
C16_OneMailBelow50 ==
    ae_pc = "done" =>
       /\ (ScoreIsLow /\ MailWorks) =>
            /\ Len(mails) = 1
            /\ mails[1].score = status_file.doc["boot_health"]["score"]
            /\ smtp[Len(smtp)] = "send_message"
       /\ ~ ScoreIsLow => mails = <<>> /\ smtp = <<>>

\* The file is missing or does not parse as JSON.
Unusable(file) == file.state \in {"missing", "unparsable"}

\* C31: a missing or unparsable mail configuration or status document is
\* read as an empty object and produces no error: a run with such a file
\* ends normally, and sends no email when it is the status document that
\* is missing or unparsable.
C31_LoadNeverFails ==
    ae_pc = "done" =>
       /\ (Unusable(config_file) \/ Unusable(status_file)) => ae_rc = "0"
       /\ Unusable(status_file) => mails = <<>> /\ smtp = <<>>

\* C16 witness: a status document with score 49 and a working relay, the
\* run has ended and sent its one email.
C16_Witness ==
    /\ ae_pc = "done"
    /\ ae_rc = "0"
    /\ status_file.state = "json"
    /\ status_file.doc = [boot_health |-> [score |-> 49]]
    /\ Len(mails) = 1

(***************************************************************************)
(* pm-fleet-dashboard/server.py, its threads interleaved: main() starts    *)
(* one discovery_listener thread (line 354) and serves every HTTP request  *)
(* on a thread of its own (ThreadingHTTPServer, line 357).  No lock guards *)
(* discovered_nodes.  The listener touches the cache in one statement, the *)
(* store of line 166, and is the only writer of the key file, so one       *)
(* datagram is one step; collect_status is followed statement by           *)
(* statement where it walks or changes the cache (lines 221-236).          *)
(* An iterator over a dict raises RuntimeError from next() when the        *)
(* dict's size differs from the size it had when the iterator was made;    *)
(* del of a key that is not there raises KeyError.                         *)
(***************************************************************************)
MaxDatagrams == 2     \* datagrams received in one run

\* The beacons that arrive: of dev1, signed with the staged key, from two
\* addresses, and signed with the active key
RaceArrivals ==
    { <<"10.0.0.1", BeaconIn("dev1", 0, "B", TRUE)>>,
      <<"10.0.0.2", BeaconIn("dev1", 0, "B", TRUE)>>,
      <<"10.0.0.1", BeaconIn("dev1", 0, "A", TRUE)>> }

\* The collector has started: the cache is empty, no request runs, the key
\* file holds dev1 with active key A and staged key B, nodes.json lists
\* 10.0.0.2.
RaceInit ==
    /\ now = 0
    /\ keys_db = [d \in {"dev1"} |-> RecAB1]
    /\ discovered_nodes = <<>>
    /\ nodes = <<[ip |-> "10.0.0.2", port |-> 8095]>>
    /\ last = [op |-> "start"]
    /\ RaceIdle /\ MoreIdle

\* The nodes that answer GET /api/status while the requests run: 10.0.0.1
\* does, 10.0.0.2 does not
RaceUp == {{"10.0.0.1"}}

raceFrame == <<pmVars, crashVars, healthVars, hardenVars, roVars, alertVars,
              moreVars>>

\* A datagram reaches the socket of line 124
Arrive(src, in) ==
    /\ Len(inbox) + Len(handled) < MaxDatagrams
    /\ inbox' = Append(inbox, <<src, in>>)
    /\ UNCHANGED <<handled, req, collVars>>
    /\ UNCHANGED raceFrame

\* More than NODE_TIMEOUT seconds pass
RaceAdvance ==
    /\ now = 0
    /\ now' = NODE_TIMEOUT + 1
    /\ UNCHANGED <<keys_db, discovered_nodes, nodes, last, raceVars>>
    /\ UNCHANGED raceFrame

\* Datagrams whose handling raises: bytes that are not JSON (line 131), and
\* JSON of the wrong shape: an array for the message (msg.get, line 133), a
\* string for ts (abs, line 140), a string for device (device.get, line
\* 144), a number for sig (hmac.compare_digest, line 115).
Mistyped == {[kind |-> "mistyped", field |-> f] :
                f \in {"msg", "ts", "device", "sig"}}
Raises(in) == in.kind \in {"not-json", "mistyped"}

\* discovery_listener(), mutated: without the try of line 129 an exception
\* ends the thread, and the datagram that raised it is never dealt with
M_RX_Handle ==
    /\ inbox # <<>>
    /\ ~Raises(Head(inbox)[2])
    /\ \E src \in {Head(inbox)[1]} :
       \E whole \in {Parsed(Head(inbox)[2])} :
       \E verdict \in {ClassifyMsg(whole)} :
         /\ keys_db' = IF verdict = "promoted"
                       THEN promote_next_key(keys_db, DeviceIdOf(whole))
                       ELSE keys_db
         /\ discovered_nodes' =
               IF Accepted(verdict)
               THEN Upsert(discovered_nodes, NodeEntry(src, WithoutSig(whole)))
               ELSE discovered_nodes
         /\ handled' = Append(handled,
               [src |-> src, in |-> Head(inbox)[2], verdict |-> verdict,
                waiting |-> Len(inbox) - 1,
                cached |-> \E e \in Range(discovered_nodes') :
                              e.ip = src /\ e.last_seen = now])
    /\ inbox' = Tail(inbox)
    /\ UNCHANGED <<now, nodes, last, req>>
    /\ UNCHANGED raceFrame

\* discovery_listener(), lines 128-175: the loop takes the oldest datagram
\* and deals with it before it takes the next; an exception is swallowed
\* at line 174 and the loop goes on
RX_Handle ==
    /\ inbox # <<>>
    /\ \E src \in {Head(inbox)[1]} :
       \E whole \in {IF Raises(Head(inbox)[2]) THEN <<>>
                     ELSE Parsed(Head(inbox)[2])} :
       \E verdict \in {IF Raises(Head(inbox)[2]) THEN "error"
                       ELSE ClassifyMsg(whole)} :
         /\ keys_db' = IF verdict = "promoted"
                       THEN promote_next_key(keys_db, DeviceIdOf(whole))
                       ELSE keys_db
         /\ discovered_nodes' =
               IF Accepted(verdict)
               THEN Upsert(discovered_nodes, NodeEntry(src, WithoutSig(whole)))
               ELSE discovered_nodes
         /\ handled' = Append(handled,
               [src |-> src, in |-> Head(inbox)[2], verdict |-> verdict,
                waiting |-> Len(inbox) - 1,
                cached |-> \E e \in Range(discovered_nodes') :
                              e.ip = src /\ e.last_seen = now])
    /\ inbox' = Tail(inbox)
    /\ UNCHANGED <<now, nodes, last, req>>
    /\ UNCHANGED raceFrame

\* do_GET, line 309, and collect_status, lines 205-221: the static nodes are
\* fetched, then the comprehension of line 221 makes its iterator.  The
\* server threads are alike: the one called r1 is the one that gets the
\* first request.
CS_Begin(r, up) ==
    /\ req[r].pc = "idle"
    /\ r = "r2" => req["r1"].pc # "idle"
    /\ req' = [req EXCEPT ![r] =
                 [pc |-> "stale", t |-> now, up |-> up, stale |-> <<>>,
                  used |-> Len(discovered_nodes), pos |-> 0,
                  results |-> StaticResults(nodes, 1, up),
                  answer |-> "none"]]
    /\ UNCHANGED <<inbox, handled, collVars>>
    /\ UNCHANGED raceFrame

\* The request ends in an exception that do_GET does not catch: the server
\* thread logs it and closes the connection without a response
Raise(r, exception) ==
    [req[r] EXCEPT !.pc = "done", !.answer = exception, !.results = <<>>,
                   !.stale = <<>>]

\* next() of a dict iterator found the dict at another size
SizeChanged(r) == req[r].used # Len(discovered_nodes)

\* lines 221-224: one turn of the comprehension
CS_StaleNext(r) ==
    /\ req[r].pc = "stale"
    /\ req' = [req EXCEPT ![r] =
         IF SizeChanged(r) THEN Raise(r, "RuntimeError")
         ELSE IF req[r].pos >= Len(discovered_nodes)
              THEN [@ EXCEPT !.pc = "purge"]
         ELSE LET n == discovered_nodes[req[r].pos + 1]
              IN  [@ EXCEPT !.pos = @ + 1,
                            !.stale = IF IsStale(req[r].t, n)
                                      THEN Append(@, n.ip) ELSE @]]
    /\ UNCHANGED <<inbox, handled, collVars>>
    /\ UNCHANGED raceFrame

\* The cache without the entry at position i
Without(cache, i) ==
    SubSeq(cache, 1, i - 1) \o SubSeq(cache, i + 1, Len(cache))

\* An iterator of another thread keeps its place among the entries that
\* stay when the entry at position i goes
KeepPlace(q, i) ==
    IF req[q].pc \in {"stale", "disc"} /\ req[q].pos >= i
    THEN [req[q] EXCEPT !.pos = @ - 1]
    ELSE req[q]

\* lines 226-230: one turn of `for ip in stale: del discovered_nodes[ip]`;
\* after the last, the loop of line 230 makes its iterator
CS_Delete(r) ==
    /\ req[r].pc = "purge"
    /\ IF req[r].stale = <<>>
       THEN /\ req' = [req EXCEPT ![r] =
                         [@ EXCEPT !.pc = "disc",
                                   !.used = Len(discovered_nodes),
                                   !.pos = 0]]
            /\ UNCHANGED discovered_nodes
       ELSE \E i \in {IndexOf(discovered_nodes, Head(req[r].stale), 1)} :
              IF i = 0
              THEN /\ req' = [req EXCEPT ![r] = Raise(r, "KeyError")]
                   /\ UNCHANGED discovered_nodes
              ELSE /\ discovered_nodes' = Without(discovered_nodes, i)
                   /\ req' = [q \in Requests |->
                                IF q = r
                                THEN [req[r] EXCEPT !.stale = Tail(@)]
                                ELSE KeepPlace(q, i)]
    /\ UNCHANGED <<now, keys_db, nodes, last, inbox, handled>>
    /\ UNCHANGED raceFrame

\* lines 230-236: one turn of the loop over the entries that are left, the
\* fetch of the node included
CS_DiscoveredNext(r) ==
    /\ req[r].pc = "disc"
    /\ req' = [req EXCEPT ![r] =
         IF SizeChanged(r) THEN Raise(r, "RuntimeError")
         ELSE IF req[r].pos >= Len(discovered_nodes)
              THEN [@ EXCEPT !.pc = "respond"]
         ELSE LET n == discovered_nodes[req[r].pos + 1]
              IN  [@ EXCEPT !.pos = @ + 1,
                            !.results =
                               IF n.ip \in SeenIps(nodes) THEN @
                               ELSE Append(@, fetch_node(n.ip, n.port, n.device,
                                                         n.ip \in req[r].up))]]
    /\ UNCHANGED <<inbox, handled, collVars>>
    /\ UNCHANGED raceFrame

\* do_GET, lines 310-317: the response
Respond(r) ==
    /\ req[r].pc = "respond"
    /\ req' = [req EXCEPT ![r] = [@ EXCEPT !.pc = "done", !.answer = "200"]]
    /\ UNCHANGED <<inbox, handled, collVars>>
    /\ UNCHANGED raceFrame

InitRace ==
    /\ RaceInit
    /\ PMIdle /\ CrashIdle /\ HealthIdle /\ HardenIdle /\ ROIdle /\ AlertIdle
    /\ MoreIdle

NextRace ==
    \/ \E a \in RaceArrivals : Arrive(a[1], a[2])
    \/ RaceAdvance
    \/ RX_Handle
    \/ \E r \in Requests : \E up \in RaceUp : CS_Begin(r, up)
    \/ \E r \in Requests : CS_StaleNext(r)
    \/ \E r \in Requests : CS_Delete(r)
    \/ \E r \in Requests : CS_DiscoveredNext(r)
    \/ \E r \in Requests : Respond(r)

SpecRace == InitRace /\ [][NextRace]_vars

\* C18: a GET /api/fleet that has ended was answered 200 with the array of
\* results, however its steps were interleaved with the listener's stores
\* and with the purge of the other request.
C18_FleetAlwaysAnswers ==
    \A r \in Requests : req[r].pc = "done" => req[r].answer = "200"

\* The datagram is a timely beacon of device d signed with key k
BeaconOf(h, d, k) ==
    h.in.kind = "beacon" /\ h.in.device = d /\ SignedWith(h.in, k)
       /\ Timely(h.in)

\* C19: when the listener has dealt with two beacons of dev1 that were both
\* signed with the key staged at the start, B, whatever else arrived and
\* whatever the request threads did meanwhile, the promotion happened once:
\* the record has active_key B, next_key cleared and epoch 2 (it was 1),
\* exactly one datagram promoted, the first one signed with B, every later
\* one signed with B verified with the active key, and both beacons were
\* stored in the cache.
C19_PromotionOnce ==
    \A i, j \in 1..Len(handled) :
       (i < j /\ BeaconOf(handled[i], "dev1", "B")
              /\ BeaconOf(handled[j], "dev1", "B"))
         => /\ keys_db["dev1"] = RecB2
            /\ handled[j].verdict = "active"
            /\ handled[i].verdict = "promoted"
                 <=> \A k \in 1..(i - 1) : ~ BeaconOf(handled[k], "dev1", "B")
            /\ handled[i].verdict # "promoted" => handled[i].verdict = "active"
            /\ handled[i].cached /\ handled[j].cached
            /\ Cardinality({k \in 1..Len(handled) :
                              handled[k].verdict = "promoted"}) = 1

\* C19 witness: two beacons signed with B, from two addresses, were in the
\* socket's buffer together and both have been dealt with.
C19_Witness ==
    /\ Len(handled) = 2
    /\ handled[1].waiting = 1
    /\ BeaconOf(handled[1], "dev1", "B")
    /\ BeaconOf(handled[2], "dev1", "B")
    /\ handled[1].src # handled[2].src
    /\ keys_db["dev1"] = RecB2

(***************************************************************************)
(* pm-service.py, the deferred read-only-root check: root_is_read_only     *)
(* (lines 103-112), enforce_ro_root_once (lines 115-140) and the timer     *)
(* that calls it ten seconds after start (line 282).                       *)
(***************************************************************************)

RO_TIMER_DELAY == 10      \* threading.Timer(10, enforce_ro_root_once)

\* Bound of the model: invocations of enforce_ro_root_once followed.
MaxRoCalls == 2

\* The mount options of the root as the kernel reports them.  A string is
\* the sequence of its symbols; "," and the newline are themselves, every
\* other symbol is a run of characters without either.
RootOptions ==
    { <<"rw", ",", "relatime">>,
      <<"ro", ",", "relatime">>,
      <<"rw", ",", "errors=remount-ro">>,
      <<"rw">>,
      <<"ro">> }

\* The root is mounted read-only: ro is one of its mount options.
RootMountedRO == <<"ro">> \in Members(Split(root_opts))

\* What findmnt -n -o OPTIONS / prints: the options and a newline.
findmnt_output == root_opts \o <<"\n">>

\* lines 103-112: "ro" in out.split(","), and False on any exception (the
\* tool missing, failing, or not answering within two seconds).
root_is_read_only ==
    IF findmnt_works
    THEN <<"ro">> \in Members(Split(findmnt_output))
    ELSE FALSE

RCInit ==
    /\ ro_check_done = FALSE
    /\ rc_pc = "armed"
    /\ ro_timer = RO_TIMER_DELAY
    /\ root_opts \in RootOptions
    /\ findmnt_works \in BOOLEAN
    /\ enforce_script_exists \in BOOLEAN
    /\ rc_popen = 0
    /\ rc_calls = 0
    /\ rc_logged = {}

rcFrame == <<pc, shutdown_triggered, shutdown_lock, brownout_counter,
             sw_pressed, script_exists, popen, enable_power_fail, polls,
             logged, collVars, crashVars, healthVars, hardenVars, roVars,
             alertVars, raceVars, fzVars, nbVars>>

\* One second passes, for the timer and for the service's uptime.
RC_Second ==
    /\ ro_timer > 0 \/ uptime < MaxUptime
    /\ ro_timer' = Max(ro_timer - 1, 0)
    /\ uptime' = Min(uptime + 1, MaxUptime)
    /\ sleep_left' = Max(sleep_left - 1, 0)
    /\ UNCHANGED <<ro_check_done, rc_pc, root_opts, findmnt_works,
                   enforce_script_exists, rc_popen, rc_calls, rc_logged>>
    /\ UNCHANGED rcFrame

\* line 282: the timer expires and calls enforce_ro_root_once.
RC_Fire ==
    /\ rc_pc = "armed"
    /\ ro_timer = 0
    /\ rc_pc' = "entry"
    /\ rc_calls' = rc_calls + 1
    /\ UNCHANGED <<ro_check_done, ro_timer, root_opts, findmnt_works,
                   enforce_script_exists, rc_popen, rc_logged>>
    /\ UNCHANGED <<uptime, sleep_left, rcFrame>>

\* enforce_ro_root_once is called again after it has returned.
RC_Again ==
    /\ rc_pc = "returned"
    /\ rc_calls < MaxRoCalls
    /\ rc_pc' = "entry"
    /\ rc_calls' = rc_calls + 1
    /\ UNCHANGED <<ro_check_done, ro_timer, root_opts, findmnt_works,
                   enforce_script_exists, rc_popen, rc_logged>>
    /\ UNCHANGED <<uptime, sleep_left, rcFrame>>

\* lines 118-120: return when the check was done, else mark it done.
RC_Guard ==
    /\ rc_pc = "entry"
    /\ IF ro_check_done
       THEN rc_pc' = "returned" /\ UNCHANGED ro_check_done
       ELSE rc_pc' = "probe" /\ ro_check_done' = TRUE
    /\ UNCHANGED <<ro_timer, root_opts, findmnt_works, enforce_script_exists,
                   rc_popen, rc_calls, rc_logged>>
    /\ UNCHANGED <<uptime, sleep_left, rcFrame>>

\* lines 123-125: a root found read-only ends the check.
RC_Probe ==
    /\ rc_pc = "probe"
    /\ IF root_is_read_only
       THEN /\ rc_pc' = "returned"
            /\ rc_logged' = rc_logged \cup {"RO root already active"}
       ELSE /\ rc_pc' = "exists"
            /\ UNCHANGED rc_logged
    /\ UNCHANGED <<ro_check_done, ro_timer, root_opts, findmnt_works,
                   enforce_script_exists, rc_popen, rc_calls>>
    /\ UNCHANGED <<uptime, sleep_left, rcFrame>>

\* lines 127-137: a missing installer ends the check; else it is started,
\* detached, and the check returns.
RC_Launch ==
    /\ rc_pc = "exists"
    /\ rc_pc' = "returned"
    /\ IF enforce_script_exists
       THEN /\ rc_logged' = rc_logged \cup {"Root is RW - enabling RO mode"}
            /\ rc_popen' = rc_popen + 1
       ELSE /\ rc_logged' = rc_logged \cup {"RO enforcement script missing"}
            /\ UNCHANGED rc_popen
    /\ UNCHANGED <<ro_check_done, ro_timer, root_opts, findmnt_works,
                   enforce_script_exists, rc_calls>>
    /\ UNCHANGED <<uptime, sleep_left, rcFrame>>

RCStep == RC_Fire \/ RC_Again \/ RC_Guard \/ RC_Probe \/ RC_Launch

\* The check runs beside the switch handler, safe_shutdown and the reset
\* button of the same process.
NextRC ==
    \/ RC_Second
    \/ RC_Fire
    \/ RC_Again
    \/ RC_Guard
    \/ RC_Probe
    \/ RC_Launch
    \/ \E t \in {"switch"} : SS_Acquire(t)
    \/ \E t \in {"switch"} : SS_TestAndSet(t)
    \/ \E t \in {"switch"} : SS_Run(t)
    \/ safe_reboot
    \/ SwitchPress
    \/ SwitchRelease
    \/ SE_BootWindow
    \/ SE_ReadFlag
    \/ SE_ReadPin

InitRC ==
    /\ PMInit /\ RCInit
    /\ CollIdle /\ CrashIdle
    /\ HealthIdle /\ HardenIdle /\ ROIdle /\ AlertIdle /\ RaceIdle
    /\ FreezeIdle /\ BeaconIdle

SpecRC == InitRC /\ [][NextRC]_vars

\* C27: the RO check starts the installer at most once in the life of the
\* process, and only when the root is not mounted read-only and the
\* installer script exists; an invocation after the first changes nothing;
\* no step of the check sets shutdown_triggered or starts the shutdown or
\* the restart script.
C27_ROCheckOnce ==
    [][ /\ rc_popen' <= 1
        /\ rc_popen' # rc_popen =>
              ~RootMountedRO /\ enforce_script_exists
        /\ (rc_pc = "entry" /\ ro_check_done /\ rc_pc' # rc_pc) =>
              /\ rc_pc' = "returned"
              /\ UNCHANGED <<rc_popen, rc_logged, ro_check_done>>
        /\ (rc_pc' # rc_pc \/ rc_popen' # rc_popen) =>
              UNCHANGED <<shutdown_triggered, shutdown_lock, popen,
                          brownout_counter>>
      ]_vars


(***************************************************************************)
(* pm-io-freeze.py: a one-shot run that freezes the targets, holds, and    *)
(* unfreezes them.  The external tools answer as the host makes them: each *)
(* call draws its outcome from the outcomes the call can have.             *)
(***************************************************************************)

FREEZE_TARGETS == <<"/">>      \* lines 26-28

\* Bound of the model: runs of the helper in a row.
MaxFreezeRuns == 2

\* subprocess.run(["mountpoint", "-q", path]), lines 47-51: exit status 0,
\* another exit status, or an exception of subprocess.run (the tool is
\* missing, the process cannot be started).
MountpointOutcomes == {"zero", "nonzero", "raises"}

\* check_output(["findmnt", ...], timeout=2), lines 57-61: the options it
\* prints, or an exception (missing tool, non-zero exit, timeout).
FindmntOutcomes ==
    { [kind |-> "prints", opts |-> <<"rw", ",", "relatime">>],
      [kind |-> "prints", opts |-> <<"ro", ",", "relatime">>],
      [kind |-> "raises"] }

\* subprocess.run(["fsfreeze", ...], timeout=FSFREEZE_TIMEOUT, check=False)
FsfreezeOutcomes == {"zero", "nonzero", "timeout", "raises"}

\* lines 46-52; the caller sees the exception when subprocess.run raises.
is_mountpoint(out) == out = "zero"

\* lines 55-64
is_read_only(out) ==
    IF out.kind = "prints"
    THEN <<"ro">> \in Members(Split(out.opts \o <<"\n">>))
    ELSE FALSE

\* What log() prints after subprocess.run, lines 81-88 and 102-107.
FreezeLog(word, out, path) ==
    IF out = "timeout" THEN word \o " timeout: " \o path
    ELSE IF out = "raises" THEN word \o " error " \o path
    ELSE IF word = "Freeze" THEN "Frozen: " \o path
    ELSE "Unfrozen: " \o path

FreezeInit ==
    /\ fz_pc = "start"
    /\ fz_i = 0
    /\ fz_env \in [fsfreeze : BOOLEAN, runs : {1}]
    /\ fz_frozen = {}
    /\ fz_cmds = <<>>
    /\ fz_rc = "none"
    /\ fz_logged = {}

fzFrame == <<pmVars, collVars, crashVars, healthVars, hardenVars, roVars,
             alertVars, raceVars, rcVars, nbVars>>

\* lines 115-119
FZ_Start ==
    /\ fz_pc = "start"
    /\ IF fz_env.fsfreeze
       THEN /\ fz_pc' = "freeze"
            /\ fz_i' = 1
            /\ fz_logged' = fz_logged \cup {"Freezing filesystems"}
            /\ UNCHANGED fz_rc
       ELSE /\ fz_pc' = "done"
            /\ fz_rc' = "0"
            /\ fz_logged' = fz_logged \cup {"fsfreeze not available"}
            /\ UNCHANGED fz_i
    /\ UNCHANGED <<fz_env, fz_frozen, fz_cmds>>
    /\ UNCHANGED fzFrame

\* lines 121-122: freeze_mount(mp) for the next target (lines 67-88).
FZ_Freeze(mp, ro, ff) ==
    /\ fz_pc = "freeze"
    /\ fz_i <= Len(FREEZE_TARGETS)
    /\ LET path == FREEZE_TARGETS[fz_i]
       IN  IF mp = "raises"
           THEN /\ fz_pc' = "done"
                /\ fz_rc' = "exception"
                /\ UNCHANGED <<fz_i, fz_frozen, fz_cmds, fz_logged>>
           ELSE /\ fz_i' = fz_i + 1
                /\ UNCHANGED <<fz_pc, fz_rc>>
                /\ IF ~is_mountpoint(mp)
                   THEN /\ fz_logged' =
                              fz_logged \cup {"Skip (not mountpoint): " \o path}
                        /\ UNCHANGED <<fz_frozen, fz_cmds>>
                   ELSE IF is_read_only(ro)
                   THEN /\ fz_logged' =
                              fz_logged \cup {"Skip (already read-only): " \o path}
                        /\ UNCHANGED <<fz_frozen, fz_cmds>>
                   ELSE /\ fz_cmds' = Append(fz_cmds, [cmd |-> "-f", path |-> path])
                        /\ fz_frozen' = IF ff = "zero"
                                        THEN fz_frozen \cup {path}
                                        ELSE fz_frozen
                        /\ fz_logged' =
                              fz_logged \cup {FreezeLog("Freeze", ff, path)}
    /\ UNCHANGED fz_env
    /\ UNCHANGED fzFrame

\* lines 124-126: the hold, then the second loop starts.
FZ_Hold ==
    /\ fz_pc = "freeze"
    /\ fz_i > Len(FREEZE_TARGETS)
    /\ fz_pc' = "unfreeze"
    /\ fz_i' = 1
    /\ fz_logged' = fz_logged \cup {"Unfreezing filesystems"}
    /\ UNCHANGED <<fz_env, fz_frozen, fz_cmds, fz_rc>>
    /\ UNCHANGED fzFrame

\* lines 128-129: unfreeze_mount(mp) for the next target (lines 91-107).
FZ_Unfreeze(mp, fu) ==
    /\ fz_pc = "unfreeze"
    /\ fz_i <= Len(FREEZE_TARGETS)
    /\ LET path == FREEZE_TARGETS[fz_i]
       IN  IF mp = "raises"
           THEN /\ fz_pc' = "done"
                /\ fz_rc' = "exception"
                /\ UNCHANGED <<fz_i, fz_frozen, fz_cmds, fz_logged>>
           ELSE /\ fz_i' = fz_i + 1
                /\ UNCHANGED <<fz_pc, fz_rc>>
                /\ IF ~is_mountpoint(mp)
                   THEN UNCHANGED <<fz_frozen, fz_cmds, fz_logged>>
                   ELSE /\ fz_cmds' = Append(fz_cmds, [cmd |-> "-u", path |-> path])
                        /\ fz_frozen' = IF fu = "zero"
                                        THEN fz_frozen \ {path}
                                        ELSE fz_frozen
                        /\ fz_logged' =
                              fz_logged \cup {FreezeLog("Unfreeze", fu, path)}
    /\ UNCHANGED fz_env
    /\ UNCHANGED fzFrame

\* line 131
FZ_Return ==
    /\ fz_pc = "unfreeze"
    /\ fz_i > Len(FREEZE_TARGETS)
    /\ fz_pc' = "done"
    /\ fz_rc' = "0"
    /\ UNCHANGED <<fz_i, fz_env, fz_frozen, fz_cmds, fz_logged>>
    /\ UNCHANGED fzFrame

\* The helper is run again; what is frozen stays frozen.
FZ_Rerun ==
    /\ fz_pc = "done"
    /\ fz_env.runs < MaxFreezeRuns
    /\ fz_pc' = "start"
    /\ fz_i' = 0
    /\ fz_env' = [fz_env EXCEPT !.runs = @ + 1]
    /\ fz_cmds' = <<>>
    /\ fz_rc' = "none"
    /\ fz_logged' = {}
    /\ UNCHANGED fz_frozen
    /\ UNCHANGED fzFrame

NextFreeze ==
    \/ FZ_Start
    \/ \E mp \in MountpointOutcomes, ro \in FindmntOutcomes,
          ff \in FsfreezeOutcomes : FZ_Freeze(mp, ro, ff)
    \/ FZ_Hold
    \/ \E mp \in MountpointOutcomes, fu \in FsfreezeOutcomes :
          FZ_Unfreeze(mp, fu)
    \/ FZ_Return
    \/ FZ_Rerun

\* The run has ended: main() returned or an exception ended the process.
FreezeEnded == fz_pc = "done"

\* An unfreeze of the target was issued after its freeze.
UnfreezeFollows(path) ==
    \A i \in 1..Len(fz_cmds) :
        fz_cmds[i] = [cmd |-> "-f", path |-> path] =>
            \E j \in (i + 1)..Len(fz_cmds) :
                fz_cmds[j] = [cmd |-> "-u", path |-> path]

\* C28: a run on a host with fsfreeze ends with an unfreeze issued, after
\* the freeze, for every target on which a freeze was issued, whatever the
\* freeze and the probing commands did, and the run returns 0.
C28_FreezeIsUndone ==
    (FreezeEnded /\ fz_env.fsfreeze) =>
        /\ \A k \in 1..Len(FREEZE_TARGETS) : UnfreezeFollows(FREEZE_TARGETS[k])
        /\ fz_rc = "0"

InitFreeze ==
    /\ FreezeInit
    /\ PMIdle /\ CollIdle /\ CrashIdle
    /\ HealthIdle /\ HardenIdle /\ ROIdle /\ AlertIdle /\ RaceIdle
    /\ RCIdle /\ BeaconIdle

SpecFreeze == InitFreeze /\ [][NextFreeze]_vars


(***************************************************************************)
(* pm-node-beacon.py: the node reads its key material, identity and epoch, *)
(* then broadcasts a signed beacon every INTERVAL seconds; the collector's *)
(* listener (server.py, lines 122-175) receives the datagrams.             *)
(***************************************************************************)

INTERVAL == 5            \* seconds between two beacons
MIN_KEY_LEN == 16        \* len(key) < 16, len(key) >= 16
NODE_API_PORT == 8090    \* "port": 8090
VERSION == "4.0"

\* Bound of the model: beacons one run of the node sends.
MaxTicks == 3

\* The address the node's datagrams come from.
NodeIp == "10.0.0.1"

\* Stripped contents of a key file; "missing" when there is no file.  A, B
\* and L stand for keys of 32 characters, "short" for one of 5.
KeyLen(text) == IF text = "short" THEN 5 ELSE 32

\* EPOCH_FILE: missing, not an integer, or an integer.
EpochFiles ==
    { [state |-> "missing"], [state |-> "unparsable"],
      [state |-> "int", value |-> 1], [state |-> "int", value |-> 2] }

\* DEVICE_FILE: missing, not JSON, or a device identity.
DeviceFiles ==
    { [state |-> "missing"], [state |-> "unparsable"],
      [state |-> "json", doc |-> [device_id |-> "dev1"]] }

\* The node's clock minus the collector's.
ClockOffsets == {0 - 120, 0, 121}

\* lines 51-55
get_epoch(file) == IF file.state = "int" THEN file.value ELSE 1

\* lines 62-77; "<exit>" stands for sys.exit(1)
load_active_key(host) ==
    IF host.key # "missing"
    THEN IF KeyLen(host.key) < MIN_KEY_LEN THEN "<exit>" ELSE host.key
    ELSE IF host.secret # "missing" THEN host.secret
    ELSE "<exit>"

\* lines 80-88
load_next_key(host) ==
    IF host.next # "missing" /\ KeyLen(host.next) >= MIN_KEY_LEN
    THEN host.next
    ELSE None

\* lines 95-103
load_device(host) ==
    IF host.device.state = "json" THEN host.device.doc
    ELSE [device_id |-> "unknown"]

\* json.dumps(clean, sort_keys=True, separators=(",", ":")) of the node
NodeSortedKeys ==
    <<"device", "epoch", "hostname", "port", "ts", "type", "version">>

\* The keys of the payload in the order lines 160-171 insert them.
InsertionKeys ==
    <<"type", "version", "device", "hostname", "port", "ts", "epoch", "sig">>

\* The members of an object in the order of `keys`.
RECURSIVE Members_in(_, _, _)
Members_in(payload, keys, i) ==
    IF i > Len(keys) THEN <<>>
    ELSE IF keys[i] \in DOMAIN payload
         THEN << <<keys[i], payload[keys[i]]>> >>
                 \o Members_in(payload, keys, i + 1)
         ELSE Members_in(payload, keys, i + 1)

\* sign_payload of the node, mutated: the keys are not sorted
M_node_sign_payload(payload, key) ==
    [key |-> key,
     msg |-> Members_in([f \in DOMAIN payload \ {"sig"} |-> payload[f]],
                        InsertionKeys, 1)]

\* sign_payload of the node, lines 117-127
node_sign_payload(payload, key) ==
    [key |-> key,
     msg |-> Members_in([f \in DOMAIN payload \ {"sig"} |-> payload[f]],
                        NodeSortedKeys, 1)]

\* json.dumps(payload), line 174: the members in insertion order
Dumps(payload) == Members_in(payload, InsertionKeys, 1)

\* json.loads(data.decode()), server.py line 131: the object with the
\* members of the text, a later member replacing an earlier one of its name
RECURSIVE Loads(_)
Loads(text) ==
    IF text = <<>> THEN <<>>
    ELSE LET rest == Loads(SubSeq(text, 1, Len(text) - 1))
             m == text[Len(text)]
         IN  Put(rest, m[1], m[2])

\* lines 160-171, mutated: the beacon is signed with the staged key when
\* one was loaded
M_Payload ==
    LET body == [type |-> "pm-node", version |-> VERSION,
                 device |-> nb_device, hostname |-> "pi",
                 port |-> NODE_API_PORT, ts |-> now + nb_host.offset,
                 epoch |-> advertised_epoch]
    IN  Put(body, "sig",
            node_sign_payload(body, IF Truthy(nb_next_key) THEN nb_next_key
                                    ELSE nb_active_key))

\* lines 160-171: the payload of one tick
Payload ==
    LET body == [type |-> "pm-node", version |-> VERSION,
                 device |-> nb_device, hostname |-> "pi",
                 port |-> NODE_API_PORT, ts |-> now + nb_host.offset,
                 epoch |-> advertised_epoch]
    IN  Put(body, "sig", node_sign_payload(body, nb_active_key))

BeaconInit ==
    /\ nb_pc = "start"
    /\ nb_host \in [key : {"missing", "short", "A", "B"},
                    secret : {"missing", "L"},
                    next : {"missing", "short", "B"},
                    device : DeviceFiles,
                    epoch : EpochFiles,
                    offset : ClockOffsets]
    /\ nb_active_key = ""
    /\ nb_next_key = ""
    /\ nb_device = <<>>
    /\ advertised_epoch = 0
    /\ nb_ticks = 0
    /\ wire = <<>>

nbFrame == <<pmVars, crashVars, healthVars, hardenVars, roVars, alertVars,
             raceVars, rcVars, fzVars, nodes>>

\* lines 135-156: what main() does before the loop.
NB_Start ==
    /\ nb_pc = "start"
    /\ IF load_active_key(nb_host) = "<exit>"
       THEN /\ nb_pc' = "exit1"
            /\ UNCHANGED <<nb_active_key, nb_next_key, nb_device,
                           advertised_epoch>>
       ELSE /\ nb_pc' = "loop"
            /\ nb_active_key' = load_active_key(nb_host)
            /\ nb_next_key' = load_next_key(nb_host)
            /\ nb_device' = load_device(nb_host)
            /\ advertised_epoch' =
                  IF Truthy(load_next_key(nb_host))
                  THEN get_epoch(nb_host.epoch) + 1
                  ELSE get_epoch(nb_host.epoch)
    /\ UNCHANGED <<nb_host, nb_ticks, wire>>
    /\ UNCHANGED <<now, keys_db, discovered_nodes, last, nbFrame>>

\* lines 159-179: one beacon; sendto either sends or raises, which line 178
\* logs.
NB_Tick(sent) ==
    /\ nb_pc = "loop"
    /\ nb_ticks < MaxTicks
    /\ nb_ticks' = nb_ticks + 1
    /\ wire' = IF sent THEN Append(wire, Dumps(Payload)) ELSE wire
    /\ nb_pc' = "sleep"
    /\ UNCHANGED <<nb_host, nb_active_key, nb_next_key, nb_device,
                   advertised_epoch>>
    /\ UNCHANGED <<now, keys_db, discovered_nodes, last, nbFrame>>

\* line 181: time.sleep(INTERVAL)
NB_Sleep ==
    /\ nb_pc = "sleep"
    /\ now + INTERVAL <= MaxNow
    /\ now' = now + INTERVAL
    /\ nb_pc' = "loop"
    /\ UNCHANGED <<nb_host, nb_active_key, nb_next_key, nb_device,
                   advertised_epoch, nb_ticks, wire>>
    /\ UNCHANGED <<keys_db, discovered_nodes, last, nbFrame>>

\* The node's key rotation writes another epoch to EPOCH_FILE.
NB_EpochWritten(file) ==
    /\ nb_pc \in {"loop", "sleep"}
    /\ file # nb_host.epoch
    /\ nb_host' = [nb_host EXCEPT !.epoch = file]
    /\ UNCHANGED <<nb_pc, nb_active_key, nb_next_key, nb_device,
                   advertised_epoch, nb_ticks, wire>>
    /\ UNCHANGED <<now, keys_db, discovered_nodes, last, nbFrame>>

\* The node's key rotation stages a next key in NEXT_KEY_FILE.
NB_KeyStaged ==
    /\ nb_pc \in {"loop", "sleep"}
    /\ nb_host.next = "missing"
    /\ nb_host' = [nb_host EXCEPT !.next = "B"]
    /\ UNCHANGED <<nb_pc, nb_active_key, nb_next_key, nb_device,
                   advertised_epoch, nb_ticks, wire>>
    /\ UNCHANGED <<now, keys_db, discovered_nodes, last, nbFrame>>

\* server.py lines 128-175: the listener receives the oldest datagram.
NB_Receive ==
    /\ wire # <<>>
    /\ wire' = Tail(wire)
    /\ \E whole \in {Loads(Head(wire))} :
       \E verdict \in {ClassifyMsg(whole)} :
         /\ keys_db' = IF verdict = "promoted"
                       THEN promote_next_key(keys_db, DeviceIdOf(whole))
                       ELSE keys_db
         /\ discovered_nodes' =
               IF Accepted(verdict)
               THEN Upsert(discovered_nodes, NodeEntry(NodeIp, WithoutSig(whole)))
               ELSE discovered_nodes
         /\ last' = [op |-> "rx", src |-> NodeIp, msg |-> whole,
                     verdict |-> verdict]
    /\ UNCHANGED <<nb_pc, nb_host, nb_active_key, nb_next_key, nb_device,
                   advertised_epoch, nb_ticks>>
    /\ UNCHANGED <<now, nbFrame>>

NextBeacon ==
    \/ NB_Start
    \/ \E sent \in BOOLEAN : NB_Tick(sent)
    \/ NB_Sleep
    \/ \E file \in EpochFiles : NB_EpochWritten(file)
    \/ NB_KeyStaged
    \/ NB_Receive

InitBeacon ==
    /\ BeaconInit
    /\ now = 0
    /\ keys_db \in InitKeyDbs
    /\ discovered_nodes = <<>>
    /\ nodes = <<>>
    /\ last = [op |-> "start"]
    /\ PMIdle /\ CrashIdle
    /\ HealthIdle /\ HardenIdle /\ ROIdle /\ AlertIdle /\ RaceIdle
    /\ RCIdle /\ FreezeIdle

SpecBeacon == InitBeacon /\ [][NextBeacon]_vars


\* A step in which the node sends a beacon, and the payload it sends.
SendStep == Len(wire') = Len(wire) + 1
SentPayload == Loads(wire'[Len(wire')])

\* The epoch the node's files call for: the stored epoch, plus 1 when a
\* staged key is present.
EpochOnFile ==
    IF Truthy(load_next_key(nb_host))
    THEN get_epoch(nb_host.epoch) + 1
    ELSE get_epoch(nb_host.epoch)

\* C23: the epoch of every beacon is the epoch stored in the epoch file at
\* that tick (1 when the file is missing or unparsable), plus 1 when a
\* staged key is present; a change of the stored epoch between two ticks
\* shows in the next beacon.
C23_EpochPerTick ==
    [][ SendStep => SentPayload.epoch = EpochOnFile ]_vars

\* A step in which the listener receives a datagram, and its message.
ReceiveStep == wire # <<>> /\ wire' = Tail(wire)
Received == Loads(Head(wire))

\* The device of the message has a Key Record whose active key is the key
\* the node signs with, and the message is at most TIMESTAMP_SKEW old or
\* ahead.
Agreeing(msg) ==
    /\ HasRecord(keys_db, DeviceIdOf(msg))
    /\ Get(keys_db[DeviceIdOf(msg)], "active_key", None) = nb_active_key
    /\ Abs(now - msg.ts) <= TIMESTAMP_SKEW

\* The cache holds one entry for the node, made from msg at time t.
Refreshed(cache, msg, t) ==
    /\ IndexOf(cache, NodeIp, 1) # 0
    /\ cache[IndexOf(cache, NodeIp, 1)] =
          [ip |-> NodeIp, port |-> NODE_API_PORT, device |-> msg.device,
           hostname |-> msg.hostname, last_seen |-> t]
    /\ Cardinality({i \in 1..Len(cache) : cache[i].ip = NodeIp}) = 1

\* C24: a beacon the node signed with its active key K, for a device whose
\* Key Record has active_key = K, received within 120 seconds of its ts,
\* is accepted by the listener on the active key and refreshes the cache
\* entry of the sender.
C24_SignVerifyAgree ==
    [][ (ReceiveStep /\ Agreeing(Received)) =>
            /\ last'.verdict = "active"
            /\ keys_db' = keys_db
            /\ Refreshed(discovered_nodes', Received, now)
      ]_vars

\* A beacon sent 120 seconds off the collector's clock was accepted on the
\* active key, after an earlier one of the same node.
C24_Witness ==
    /\ last.op = "rx"
    /\ last.verdict = "active"
    /\ Abs(now - last.msg.ts) = TIMESTAMP_SKEW
    /\ now > 0
    /\ Refreshed(discovered_nodes, last.msg, now)


(***************************************************************************)
(* The discovery listener alone (server.py, lines 122-175), given every    *)
(* kind of datagram in every order.                                        *)
(***************************************************************************)

\* Every kind of datagram, from one address.
ListenerArrivals ==
    { <<"10.0.0.1", in>> : in \in DatagramInputs \cup Mistyped }

ListenerInit ==
    /\ now = 0
    /\ keys_db \in InitKeyDbs
    /\ discovered_nodes = <<>>
    /\ nodes = <<>>
    /\ last = [op |-> "start"]
    /\ RaceIdle /\ MoreIdle

InitListener ==
    /\ ListenerInit
    /\ PMIdle /\ CrashIdle
    /\ HealthIdle /\ HardenIdle /\ ROIdle /\ AlertIdle

NextListener ==
    \/ \E a \in ListenerArrivals : Arrive(a[1], a[2])
    \/ RX_Handle

SpecListener == InitListener /\ [][NextListener]_vars

\* A step in which the listener deals with a datagram, and what it did.
HandleStep == Len(handled') = Len(handled) + 1
Handling == handled'[Len(handled')]

\* Not JSON, JSON of the wrong shape or of another type, unsigned, or
\* signed over other fields or with a key that is not the device's.
BadDatagram(in) ==
    \/ Raises(in)
    \/ in.kind = "other-type"
    \/ /\ in.kind = "beacon"
       /\ \/ in.key = ""
          \/ ~in.bound
          \/ /\ HasRecord(keys_db, in.device)
             /\ in.key # Get(keys_db[in.device], "active_key", None)
             /\ in.key # Get(keys_db[in.device], "next_key", None)

\* C25: no datagram ends the listener: whatever is first in the socket
\* buffer, the listener deals with it and goes on; a malformed, non-JSON,
\* wrongly typed, unsigned or wrongly signed datagram changes neither the
\* key database nor the cache; and a valid beacon is accepted, whatever
\* datagrams came before it.
C25_ListenerSurvives ==
    [][ /\ inbox # <<>> => ENABLED RX_Handle
        /\ HandleStep =>
              /\ BadDatagram(Handling.in) =>
                    /\ ~Accepted(Handling.verdict)
                    /\ UNCHANGED <<keys_db, discovered_nodes>>
              /\ ValidBeacon(Handling.in) =>
                    /\ Accepted(Handling.verdict)
                    /\ Handling.cached
      ]_vars

\* A datagram whose handling raised was followed by a valid beacon, which
\* was accepted and stored.
C25_Witness ==
    /\ Len(handled) = 2
    /\ handled[1].verdict = "error"
    /\ handled[1].in \in Mistyped
    /\ handled[2].verdict = "active"
    /\ handled[2].cached

(***************************************************************************)
(* The node's beacon and the collector's listener together with the other  *)
(* traffic of the discovery port: who changes the Key Database             *)
(* (server.py lines 82-98 and 149-164, pm-node-beacon.py lines 160-171).   *)
(***************************************************************************)
\* The address the other datagrams come from.
OtherIp == "10.0.0.2"

\* Datagrams of other senders: of another type, and beacons signed with
\* the staged key: for dev1 121 s old, for a device without a record, and
\* for dev1 in time.  (A signature under neither key is what the node
\* sends when it signs with its legacy secret.)
OtherTraffic ==
    { [kind |-> "other-type"],
      BeaconIn("dev1", 0 - 121, "B", TRUE),
      BeaconIn("dev3", 0, "B", TRUE),
      BeaconIn("dev1", 0, "B", TRUE) }

\* The node has a device identity, a legacy secret, and an epoch file that
\* holds 1 and is not rewritten; its key files and its clock are any of
\* those of the beacon's model, and the collector has a record for dev1 only.
InitRollover ==
    /\ InitBeacon
    /\ nb_host.epoch = [state |-> "int", value |-> 1]
    /\ nb_host.device.state = "json"
    /\ nb_host.secret = "L"
    /\ nb_host.offset \in {0, 121}
    /\ DOMAIN keys_db = {"dev1"}

NextRollover ==
    \/ NB_Start
    \/ \E sent \in BOOLEAN : NB_Tick(sent)
    \/ NB_Sleep
    \/ NB_KeyStaged
    \/ NB_Receive
    \/ \E in \in OtherTraffic : discovery_listener(OtherIp, in)

SpecRollover == InitRollover /\ [][NextRollover]_vars

\* A step in which the listener deals with a datagram of another sender,
\* and its message.
OtherStep ==
    /\ UNCHANGED <<nbVars, now>>
    /\ last'.op = "rx"
    /\ last'.src = OtherIp
OtherMsg == Parsed(last'.in)

\* The record the Key Database holds for the device of msg has an active
\* key under which msg does not verify and a staged key under which it does.
StagedKeyOnly(db, msg) ==
    /\ HasRecord(db, DeviceIdOf(msg))
    /\ ~verify_with_key(WithoutSig(msg), PopSig(msg),
                        Get(db[DeviceIdOf(msg)], "active_key", None))
    /\ verify_with_key(WithoutSig(msg), PopSig(msg),
                       Get(db[DeviceIdOf(msg)], "next_key", None))

\* msg verifies under the active key of its device's record.
UnderActiveKey(db, msg) ==
    /\ HasRecord(db, DeviceIdOf(msg))
    /\ verify_with_key(WithoutSig(msg), PopSig(msg),
                       Get(db[DeviceIdOf(msg)], "active_key", None))

\* msg is rejected: wrong type, stale ts, unknown device, or a signature
\* that verifies under neither key of the record.
RejectedBeacon(db, msg) ==
    \/ Get(msg, "type", None) # "pm-node"
    \/ Abs(now - Get(msg, "ts", 0)) > TIMESTAMP_SKEW
    \/ ~HasRecord(db, DeviceIdOf(msg))
    \/ /\ ~UnderActiveKey(db, msg)
       /\ ~StagedKeyOnly(db, msg)

\* What C32 says of the datagram msg that a step deals with.
KeysGuarded(msg) ==
    /\ keys_db' # keys_db => StagedKeyOnly(keys_db, msg)
    /\ UnderActiveKey(keys_db, msg) => keys_db' = keys_db
    /\ RejectedBeacon(keys_db, msg) => keys_db' = keys_db

\* C32: processing a beacon leaves the Key Database unchanged unless the
\* beacon fails verification under the active key and verifies under the
\* staged key: a beacon accepted under the active key and every rejected
\* beacon (stale ts, unknown device, bad signature, wrong type) change no
\* key record and no epoch, and no other step changes the database.  The
\* node signs with its active key only, so while the collector's active
\* key for the node's device is the node's active key, the node's beacons
\* change nothing in the database, however long a key stays staged.
C32_PromotionOnlyOnStagedKey ==
    [][ /\ ReceiveStep => KeysGuarded(Received)
        /\ OtherStep => KeysGuarded(OtherMsg)
        /\ ~ReceiveStep /\ ~OtherStep => keys_db' = keys_db
        /\ ( /\ ReceiveStep
             /\ HasRecord(keys_db, DeviceIdOf(Received))
             /\ Get(keys_db[DeviceIdOf(Received)], "active_key", None)
                   = nb_active_key )
           => /\ keys_db' = keys_db
              /\ last'.verdict # "promoted"
      ]_vars

\* The node, with a key staged in its own next-key file since before it
\* started and the collector holding active key A and staged key B for its
\* device, has sent every beacon of the run; the last was accepted under
\* the active key, and the record is as it was.
C32_Witness ==
    /\ nb_ticks = MaxTicks
    /\ wire = <<>>
    /\ now >= INTERVAL * (MaxTicks - 1)
    /\ nb_active_key = "A"
    /\ nb_next_key = "B"
    /\ last.op = "rx"
    /\ last.src = NodeIp
    /\ last.verdict = "active"
    /\ Len(discovered_nodes) = 1
    /\ DOMAIN keys_db = {"dev1"}
    /\ keys_db["dev1"] = RecAB1

============================================================================
